---- MODULE Spec2Model ----
(***************************************************************************)
(* TuxArena: the entity manager (src/src/EntityManager.cpp) and the        *)
(* authoritative server's connection registry (src/src/NetworkServer.cpp). *)
(*                                                                         *)
(* SpecEM     : one EntityManager driven through its public operations.    *)
(* SpecServer : one NetworkServer with the EntityManager it spawns into.   *)
(***************************************************************************)
EXTENDS Integers, Sequences, FiniteSets, TLC

\* ------------------------------------------------------------------------
\* Bounds of the model
\* ------------------------------------------------------------------------
\* Entities held by a manager at once.
MaxEntities == 2
\* Entity objects constructed during one run (heap serial numbers handed out).
MaxAllocs == 3
\* The largest identity a caller forces (createEntity's forceId argument).
MaxForcedId == 1
\* Capacities the server may be initialized with: 1..MaxCapacity.
MaxCapacity == 2
\* Player entities spawned by the server in one behaviour.
MaxSpawns == 2
\* Datagrams that reach the server's socket in all.
MaxDatagrams == 3
\* Entities a server holds beyond those that fit into one STATE_UPDATE.
MaxOverflow == 2
\* The clock advances by TickStep seconds up to MaxTime.
TickStep == 5
MaxTime == 15
\* Seconds by which the performance counter may run ahead of SDL_GetTicks().
MaxPerfEpoch == 15
\* sendInput calls that start from one value of the sequence counter.
MaxInputs == 2

\* ------------------------------------------------------------------------
\* Program constants
\* ------------------------------------------------------------------------
\* uint32_t: a 32-bit value is held as its two 16-bit halves <<high, low>>,
\* so that the counter keeps its width (it wraps after 2^32 - 1).
U16_MOD == 65536
\* enum class EntityType
GENERIC == 0
PLAYER == 1
PROJECTILE_BULLET == 2
PROJECTILE_ROCKET == 3

\* nullptr, and "no entity" as createEntity / getEntityById return it.
Null == 0

\* NetworkServer.cpp line 294: Vec2 spawnPos = {100.0f, 100.0f}
SpawnPos == <<100, 100>>

VARIABLES
    \* --- EntityManager members ---
    m_isInitialized,     \* bool
    m_nextEntityId,      \* uint32_t
    m_entities,          \* vector<unique_ptr<Entity>>: sequence of entity records
    m_entityMap,         \* map<uint32_t, Entity*>: identity -> object
    m_destructionQueue,  \* vector<uint32_t>
    m_mapManager,        \* MapManager*: TRUE when not nullptr
    \* --- the heap: serial number of the next Entity object constructed ---
    nextPtr,
    \* --- observation of the calls made (history, not program state) ---
    idEpoch,     \* how often assignNextId has reset the counter to 1
    returnLog,   \* [epoch, id] of every successful createEntity without forceId
    lastCall,    \* the operation that ran last and its result
    lastArgs,    \* the arguments of the last call: [type, forceId, fault] of
                 \* createEntity, [acts, isServer] of update, [center, radius,
                 \* filter] of findEntitiesInRadius; NoArgs after any other
                 \* operation
    foundList,   \* the list the last findEntitiesInRadius call returned
    updLog,      \* update hooks invoked by the last call: [id, queued], where
                 \* queued says whether id was in the queue at that moment
    rndLog,      \* render hooks invoked by the last call: [id, queued]
    dstLog,      \* onDestroy hooks invoked by the last call: [id]
    queueBefore  \* m_destructionQueue when the last update() began

emVars == <<m_isInitialized, m_nextEntityId, m_entities, m_entityMap,
            m_destructionQueue, m_mapManager, nextPtr>>
histVars == <<idEpoch, returnLog, lastCall, lastArgs, foundList, updLog, rndLog, dstLog,
              queueBefore>>

\* ------------------------------------------------------------------------
\* Helpers
\* ------------------------------------------------------------------------
EmptyMap == [x \in {} |-> Null]

MapPut(m, k, v) == [x \in (DOMAIN m) \cup {k} |-> IF x = k THEN v ELSE m[x]]

MapErase(m, k) == [x \in (DOMAIN m) \ {k} |-> m[x]]

SeqToSet(s) == {s[i] : i \in 1..Len(s)}

\* uint32_t values and the arithmetic the program does on them.
U32(n) == <<n \div U16_MOD, n % U16_MOD>>

U32Inc(v) == IF v[2] = U16_MOD - 1 THEN <<(v[1] + 1) % U16_MOD, 0>> ELSE <<v[1], v[2] + 1>>

UINT32_MAX == <<U16_MOD - 1, U16_MOD - 1>>

\* The manager and its observation as one value, threaded through the calls.
EM ==
    [m_isInitialized |-> m_isInitialized, m_nextEntityId |-> m_nextEntityId,
     m_entities |-> m_entities, m_entityMap |-> m_entityMap,
     m_destructionQueue |-> m_destructionQueue, m_mapManager |-> m_mapManager,
     nextPtr |-> nextPtr,
     idEpoch |-> idEpoch, returnLog |-> returnLog,
     updLog |-> <<>>, rndLog |-> <<>>, dstLog |-> <<>>,
     unwound |-> FALSE]    \* an exception has left the call that is running

SetEM(S) ==
    /\ m_isInitialized' = S.m_isInitialized
    /\ m_nextEntityId' = S.m_nextEntityId
    /\ m_entities' = S.m_entities
    /\ m_entityMap' = S.m_entityMap
    /\ m_destructionQueue' = S.m_destructionQueue
    /\ m_mapManager' = S.m_mapManager
    /\ nextPtr' = S.nextPtr
    /\ idEpoch' = S.idEpoch
    /\ returnLog' = S.returnLog
    /\ updLog' = S.updLog
    /\ rndLog' = S.rndLog
    /\ dstLog' = S.dstLog

InQueue(S, id) == \E k \in 1..Len(S.m_destructionQueue) : S.m_destructionQueue[k] = id

\* ------------------------------------------------------------------------
\* EntityManager
\* ------------------------------------------------------------------------

\* EntityManager::initialize; Game passes the address of its MapManager.
initialize(S) ==
    IF S.m_isInitialized THEN S
    ELSE [S EXCEPT !.m_mapManager = TRUE,
                   !.m_entities = <<>>, !.m_entityMap = EmptyMap,
                   !.m_destructionQueue = <<>>, !.m_nextEntityId = U32(1),
                   !.m_isInitialized = TRUE]

\* EntityManager::shutdown
shutdown(S) ==
    IF ~S.m_isInitialized THEN S
    ELSE [S EXCEPT !.m_entityMap = EmptyMap, !.m_entities = <<>>,
                   !.m_destructionQueue = <<>>, !.m_mapManager = FALSE,
                   !.m_isInitialized = FALSE]

\* EntityManager::assignNextId: the identity returned (0: failure) and the
\* manager afterwards.
assignNextId_NoIncrement(S) ==
    IF S.m_nextEntityId = U32(0)
    THEN IF U32(1) \in DOMAIN S.m_entityMap
         THEN [S |-> [S EXCEPT !.m_nextEntityId = U32(1), !.idEpoch = @ + 1], id |-> U32(0)]
         ELSE [S |-> [S EXCEPT !.m_nextEntityId = U32(1), !.idEpoch = @ + 1], id |-> U32(1)]
    ELSE [S |-> S, id |-> S.m_nextEntityId]

assignNextId_NoCollisionCheck(S) ==
    IF S.m_nextEntityId = U32(0)
    THEN [S |-> [S EXCEPT !.m_nextEntityId = U32(2), !.idEpoch = @ + 1], id |-> U32(1)]
    ELSE [S |-> [S EXCEPT !.m_nextEntityId = U32Inc(@)], id |-> S.m_nextEntityId]

assignNextId(S) ==
    IF S.m_nextEntityId = U32(0)
    THEN IF U32(1) \in DOMAIN S.m_entityMap
         THEN [S |-> [S EXCEPT !.m_nextEntityId = U32(1), !.idEpoch = @ + 1], id |-> U32(0)]
         ELSE [S |-> [S EXCEPT !.m_nextEntityId = U32(2), !.idEpoch = @ + 1], id |-> U32(1)]
    ELSE [S |-> [S EXCEPT !.m_nextEntityId = U32Inc(@)], id |-> S.m_nextEntityId]

\* The identity a new entity gets: the caller's forceId when it is not 0,
\* else the next counter value (EntityManager.h declares the parameter; the
\* behaviour is the design's "forced or next-counter").
selectId(S, forceId) ==
    IF forceId # U32(0) THEN [S |-> S, id |-> forceId] ELSE assignNextId(S)

\* The factory switch of createEntity: the type tags it constructs an entity
\* for; every other tag takes the default branch.
Constructs_AnyTag(type) == TRUE

Constructs(type) == type \in {PLAYER, PROJECTILE_BULLET}

\* EntityManager::createEntity.  fault: "none", "bad_alloc" (make_unique
\* throws) or "init_throws" (the entity's initialize hook throws).
\* Returns the manager afterwards and the pointer returned (Null: no entity).
createEntity_RegistersBeforeInitialize(S, type, position, rotation, forceId, fault) ==
    IF ~S.m_isInitialized THEN [S |-> S, ret |-> Null, id |-> U32(0)]
    ELSE IF ~Constructs(type) THEN [S |-> S, ret |-> Null, id |-> U32(0)]
    ELSE IF fault = "bad_alloc" THEN [S |-> S, ret |-> Null, id |-> U32(0)]
    ELSE
      LET ptr == S.nextPtr
          S1 == [S EXCEPT !.nextPtr = @ + 1]
          a == selectId(S1, forceId)
          newEntity == [ptr |-> ptr, id |-> a.id, type |-> type, active |-> TRUE,
                        pos |-> position, rot |-> rotation]
          S2 == [a.S EXCEPT !.m_entities = Append(@, newEntity),
                            !.m_entityMap = MapPut(@, a.id, ptr)]
      IN IF a.id = U32(0) THEN [S |-> a.S, ret |-> Null, id |-> U32(0)]
         ELSE IF fault = "init_throws" THEN [S |-> S2, ret |-> Null, id |-> U32(0)]
         ELSE [S |-> [S2 EXCEPT
                        !.returnLog = IF forceId = U32(0)
                                      THEN Append(@, [epoch |-> a.S.idEpoch, id |-> a.id])
                                      ELSE @],
               ret |-> ptr, id |-> a.id]

createEntity(S, type, position, rotation, forceId, fault) ==
    IF ~S.m_isInitialized THEN [S |-> S, ret |-> Null, id |-> U32(0)]
    ELSE IF ~Constructs(type) THEN [S |-> S, ret |-> Null, id |-> U32(0)]
    ELSE IF fault = "bad_alloc" THEN [S |-> S, ret |-> Null, id |-> U32(0)]
    ELSE
      LET ptr == S.nextPtr
          S1 == [S EXCEPT !.nextPtr = @ + 1]
          a == selectId(S1, forceId)
          newEntity == [ptr |-> ptr, id |-> a.id, type |-> type, active |-> TRUE,
                        pos |-> position, rot |-> rotation]
      IN IF a.id = U32(0) THEN [S |-> a.S, ret |-> Null, id |-> U32(0)]
         ELSE IF fault = "init_throws" THEN [S |-> a.S, ret |-> Null, id |-> U32(0)]
         ELSE [S |-> [a.S EXCEPT
                        !.m_entities = Append(@, newEntity),
                        !.m_entityMap = MapPut(@, a.id, ptr),
                        !.returnLog = IF forceId = U32(0)
                                      THEN Append(@, [epoch |-> a.S.idEpoch, id |-> a.id])
                                      ELSE @],
               ret |-> ptr, id |-> a.id]

\* EntityManager::destroyEntity
destroyEntity(S, id) ==
    IF ~S.m_isInitialized \/ id = U32(0) THEN S
    ELSE IF id \in DOMAIN S.m_entityMap
         THEN IF ~InQueue(S, id)
              THEN [S EXCEPT !.m_destructionQueue = Append(@, id)]
              ELSE S
         ELSE S

\* EntityManager::getEntityById
getEntityById(S, id) ==
    IF ~S.m_isInitialized \/ id = U32(0) THEN Null
    ELSE IF id \in DOMAIN S.m_entityMap THEN S.m_entityMap[id] ELSE Null

\* EntityManager::processDestructionQueue
processDestructionQueue(S) ==
    IF S.m_destructionQueue = <<>> \/ ~S.m_isInitialized THEN S
    ELSE
      LET idsToDestroy == SeqToSet(S.m_destructionQueue)
          shouldRemove(e) == e.id \in idsToDestroy
          keep(e) == ~shouldRemove(e)
          removed == SelectSeq(S.m_entities, shouldRemove)
      IN [S EXCEPT
            !.dstLog = @ \o [k \in 1..Len(removed) |->
                                [id |-> removed[k].id]],
            !.m_entityMap = [x \in (DOMAIN @) \ {removed[k].id : k \in 1..Len(removed)}
                               |-> @[x]],
            !.m_entities = SelectSeq(@, keep),
            !.m_destructionQueue = <<>>]

\* Player::update / Player::attemptShoot and ProjectileBullet::update, as far
\* as they call back into the manager.  act: the hook's branch that does so
\* is taken (the player shoots; the bullet expires or hits something).
entityUpdate(S, e, act, isServer) ==
    IF ~act THEN S
    ELSE IF e.type = PLAYER
         THEN IF isServer THEN S
              ELSE createEntity(S, PROJECTILE_BULLET, e.pos, e.rot, U32(0), "none").S
         ELSE IF e.type = PROJECTILE_BULLET
              THEN destroyEntity(S, e.id)
              ELSE S

\* The guard of EntityManager::update's loop body: is this entity's update
\* hook invoked?
shouldUpdate_NoQueueCheck(S, e) == e.active

shouldUpdate(S, e) == e.active /\ ~InQueue(S, e.id)

\* The handler around entity->update(context): catch (const std::exception&).
\* fault: what the hook throws, "none" or "std_exception" (what the standard
\* library throws under the hooks; the entities throw nothing of their own).
Caught_Never(fault) == FALSE

Caught(fault) == fault = "std_exception"

\* The loop of EntityManager::update.  acts[i] and faults[i]: what the hook
\* of the entity at i does to the manager, and what it then throws.
RECURSIVE updateLoop(_, _, _, _, _, _)
updateLoop(S, i, initialSize, acts, faults, isServer) ==
    IF i > initialSize THEN S
    ELSE LET e == S.m_entities[i]
         IN IF shouldUpdate(S, e)
            THEN LET S1 == [S EXCEPT !.updLog = Append(@,
                                [id |-> e.id, queued |-> InQueue(S, e.id)])]
                     S2 == entityUpdate(S1, e, acts[i], isServer)
                 IN IF faults[i] # "none" /\ ~Caught(faults[i])
                    THEN [S2 EXCEPT !.unwound = TRUE]
                    ELSE updateLoop(S2, i + 1, initialSize, acts, faults, isServer)
            ELSE updateLoop(S, i + 1, initialSize, acts, faults, isServer)

\* EntityManager::update
update(S, acts, faults, isServer) ==
    IF ~S.m_isInitialized THEN S
    ELSE LET S1 == updateLoop(S, 1, Len(S.m_entities), acts, faults, isServer)
         IN IF S1.unwound THEN S1 ELSE processDestructionQueue(S1)

\* EntityManager::render
render(S) ==
    IF ~S.m_isInitialized THEN S
    ELSE LET shown == SelectSeq(S.m_entities, LAMBDA e : e.active)
         IN [S EXCEPT !.rndLog = [k \in 1..Len(shown) |->
                  [id |-> shown[k].id, queued |-> InQueue(S, shown[k].id)]]]

\* Entity::setActive on the entity at ptr.
setActive(S, ptr, active) ==
    [S EXCEPT !.m_entities =
        [k \in 1..Len(@) |-> IF @[k].ptr = ptr THEN [@[k] EXCEPT !.active = active]
                             ELSE @[k]]]

\* The predicates callers pass to findEntitiesInRadius: "none" (an empty
\* std::function), "players" (the entity is a PLAYER), "never".
Filter(filter, e) ==
    CASE filter = "players" -> e.type = PLAYER
      [] filter = "never" -> FALSE
      [] OTHER -> TRUE

\* The guard of findEntitiesInRadius on its radius.
NegativeRadius_Never(radius) == FALSE

NegativeRadius(radius) == radius < 0

\* EntityManager::findEntitiesInRadius: the pointers returned, in the
\* collection's order.  The method is const.
findEntitiesInRadius(S, center, radius, filter) ==
    IF ~S.m_isInitialized \/ NegativeRadius(radius) THEN <<>>
    ELSE LET radiusSq == radius * radius
             hit(e) ==
                /\ e.active
                /\ LET dx == e.pos[1] - center[1]
                       dy == e.pos[2] - center[2]
                   IN (dx * dx) + (dy * dy) <= radiusSq
                /\ (filter = "none" \/ Filter(filter, e))
             hits == SelectSeq(S.m_entities, hit)
         IN [k \in 1..Len(hits) |-> hits[k].ptr]

\* ------------------------------------------------------------------------
\* NetworkServer (src/src/NetworkServer.cpp)
\* ------------------------------------------------------------------------
\* Network.h: protocol constants and message type codes.
PROTOCOL_ID == <<21589, 22593>>     \* 0x54555841 as <<high, low>> halves
PROTOCOL_VERSION == 1
MAX_PACKET_SIZE == 1400
CONNECTION_TIMEOUT == 10
CONNECT_REQUEST == 1
DISCONNECT == 2
INPUT == 3
PONG == 4
WELCOME == 101
REJECT == 102
SPAWN_ENTITY == 104
SET_MAP == 108
SERVER_FULL == 0

VARIABLES
    netServer,               \* NetworkServer's m_isInitialized, m_serverSocket,
                             \* m_recvPacket, m_entityManager and m_mapManager,
                             \* each TRUE when set (not nullptr)
    socketQueue,             \* the datagrams queued at m_serverSocket: [addr, data]
    recvPc,                  \* where NetworkServer::receiveData stands
    recvPacket,              \* what the last SDLNet_UDP_Recv put in *m_recvPacket
    takenLog,                \* history: the datagrams receiveData took off the socket
    handledLog,              \* history: the datagrams handed to handlePacket
    m_maxClients,            \* capacity fixed by NetworkServer::initialize
    m_clients,               \* client identity -> ClientInfo
    m_addressToClientIdMap,  \* transport address -> client identity
    m_nextClientId,          \* uint32_t counter, as <<high, low>>
    now,                     \* the clock read by SDL_GetTicks(), in seconds
    perfEpoch,               \* SDL_GetPerformanceCounter() / frequency minus
                             \* SDL_GetTicks() / 1000: the two clocks need not
                             \* share their origin
    sent,                    \* datagrams handed to the socket by the last step
    lastPkt                  \* history: the last server step and what it
                             \* found: [op, addr, data, known, full]

\* The socket and receiveData's progress.
rcvVars == <<socketQueue, recvPc, recvPacket, takenLog, handledLog>>

srvVars == <<netServer, rcvVars, m_maxClients, m_clients, m_addressToClientIdMap,
             m_nextClientId, now, perfEpoch, sent, lastPkt>>

\* The server together with the manager it spawns into, as one record.
SV ==
    [m_maxClients |-> m_maxClients, m_clients |-> m_clients,
     m_addressToClientIdMap |-> m_addressToClientIdMap,
     m_nextClientId |-> m_nextClientId, net |-> netServer, sent |-> <<>>,
     em |-> EM]

SetServer(N) ==
    /\ netServer' = N.net
    /\ m_maxClients' = N.m_maxClients
    /\ m_clients' = N.m_clients
    /\ m_addressToClientIdMap' = N.m_addressToClientIdMap
    /\ m_nextClientId' = N.m_nextClientId
    /\ sent' = N.sent
    /\ SetEM(N.em)

\* An operation that is not part of receiveData.
SetSV(N) == SetServer(N) /\ UNCHANGED rcvVars

\* Big-endian reads and writes of the wire format (SDL_SwapBE32/16 around a
\* memcpy on a little-endian host); data is a sequence of bytes and off the
\* C offset of the first byte.
ReadBE32(data, off) ==
    <<data[off + 1] * 256 + data[off + 2], data[off + 3] * 256 + data[off + 4]>>

ReadBE16(data, off) == data[off + 1] * 256 + data[off + 2]

WriteBE32_NoSwap(v) == <<v[2] % 256, v[2] \div 256, v[1] % 256, v[1] \div 256>>

WriteBE32(v) == <<v[1] \div 256, v[1] % 256, v[2] \div 256, v[2] % 256>>

\* The bytes memcpy copies out of a float on a little-endian host, for the
\* values the server sends (spawn position 100.0f, rotation 0.0f).
FloatBytes(x) ==
    CASE x = 0 -> <<0, 0, 0, 0>>
      [] x = 100 -> <<0, 0, 200, 66>>

\* std::string(const char*): the bytes before the first NUL.
RECURSIVE CString(_)
CString(bytes) ==
    IF bytes = <<>> \/ Head(bytes) = 0 THEN <<>>
    ELSE <<Head(bytes)>> \o CString(Tail(bytes))

\* m_mapManager->getMapName(), an external collaborator: "m1".
mapName == <<109, 49>>

AddressEqual_HostOnly(a, b) == a[1] = b[1]

\* An IPaddress is <<host, port>>.
AddressEqual(a, b) == a[1] = b[1] /\ a[2] = b[2]

\* m_addressToClientIdMap.find(address): the keys equal to address under the
\* map's AddressEqual (none or one).
AddrFind(m, address) == {k \in DOMAIN m : AddressEqual(k, address)}

AddrErase(m, address) == [k \in (DOMAIN m) \ AddrFind(m, address) |-> m[k]]

AddrPut(m, address, id) ==
    IF AddrFind(m, address) # {}
    THEN [k \in DOMAIN m |-> IF AddressEqual(k, address) THEN id ELSE m[k]]
    ELSE MapPut(m, address, id)

\* handlePacket lines 176-186: the ClientInfo the source address maps to, as
\* a set holding its identity (empty when there is none).
ClientOf(N, address) ==
    {N.m_addressToClientIdMap[k] : k \in AddrFind(N.m_addressToClientIdMap, address)}
       \cap DOMAIN N.m_clients

sendPacket(N, dest, data) ==
    IF Len(data) <= 0 \/ Len(data) > MAX_PACKET_SIZE THEN N
    ELSE [N EXCEPT !.sent = Append(@, [to |-> dest, data |-> data])]

removeClient_KeepAddress(N, clientId) ==
    IF clientId \in DOMAIN N.m_clients
    THEN [N EXCEPT !.m_clients = MapErase(@, clientId)]
    ELSE N

removeClient(N, clientId) ==
    IF clientId \in DOMAIN N.m_clients
    THEN [N EXCEPT !.m_addressToClientIdMap =
                       AddrErase(@, N.m_clients[clientId].address),
                   !.m_clients = MapErase(@, clientId)]
    ELSE N

\* Returns the server and the identity of the ClientInfo found or added.
findOrAddClient_AlwaysAdds(N, address, t) ==
    LET N1 == [N EXCEPT !.m_addressToClientIdMap = AddrErase(@, address)]
        newClientId == N1.m_nextClientId
        newClient == [clientId |-> newClientId, address |-> address,
                      playerName |-> <<>>, lastPacketTime |-> t,
                      lastInputSequence |-> 0, isConnected |-> FALSE,
                      playerEntity |-> Null]
    IN [N |-> [N1 EXCEPT
                 !.m_nextClientId = U32Inc(@),
                 !.m_clients = MapPut(@, newClientId, newClient),
                 !.m_addressToClientIdMap = AddrPut(@, address, newClientId)],
        ok |-> TRUE, client |-> newClientId]

findOrAddClient(N, address, t) ==
    LET found == ClientOf(N, address)
    IN IF found # {}
       THEN [N |-> N, ok |-> TRUE, client |-> CHOOSE c \in found : TRUE]
       ELSE LET N1 == [N EXCEPT !.m_addressToClientIdMap = AddrErase(@, address)]
                newClientId == N1.m_nextClientId
                newClient == [clientId |-> newClientId, address |-> address,
                              playerName |-> <<>>, lastPacketTime |-> t,
                              lastInputSequence |-> 0, isConnected |-> FALSE,
                              playerEntity |-> Null]
            IN IF newClientId \in DOMAIN N1.m_clients
               THEN [N |-> N1, ok |-> FALSE, client |-> U32(0)]
               ELSE [N |-> [N1 EXCEPT
                              !.m_nextClientId = U32Inc(@),
                              !.m_clients = MapPut(@, newClientId, newClient),
                              !.m_addressToClientIdMap = AddrPut(@, address, newClientId)],
                     ok |-> TRUE, client |-> newClientId]

ProtocolMatches_IdOnly(protoId, version) == protoId = PROTOCOL_ID

ProtocolMatches(protoId, version) ==
    protoId = PROTOCOL_ID /\ version = PROTOCOL_VERSION

ServerFull_OffByOne(N) == Cardinality(DOMAIN N.m_clients) > N.m_maxClients

ServerFull(N) == Cardinality(DOMAIN N.m_clients) >= N.m_maxClients

\* Step 8 of handleConnectRequest: spawn the player entity and announce it.
spawnPlayer(N, address, clientId) ==
    LET r == createEntity(N.em, PLAYER, SpawnPos, 0, U32(0), "none")
        N1 == [N EXCEPT !.em = r.S]
    IN IF r.ret # Null
       THEN sendPacket([N1 EXCEPT !.m_clients[clientId].playerEntity = r.ret],
                       address,
                       <<SPAWN_ENTITY>> \o WriteBE32(r.id) \o <<PLAYER>>
                          \o FloatBytes(SpawnPos[1]) \o FloatBytes(SpawnPos[2])
                          \o FloatBytes(0))
       ELSE N1

\* The length test that opens handleConnectRequest: type, protocol id,
\* version, one character of the name and its NUL.
TooShortForConnect_HeaderOnly(data) == Len(data) < 1 + 4 + 2

TooShortForConnect(data) == Len(data) < 1 + 4 + 2 + 2

handleConnectRequest(N, address, data, t) ==
    IF TooShortForConnect(data) THEN N
    ELSE IF ~ProtocolMatches(ReadBE32(data, 1), ReadBE16(data, 5)) THEN N
    ELSE IF ServerFull(N) THEN N
    ELSE LET playerName == CString(SubSeq(data, 8, Len(data)))
             f == findOrAddClient(N, address, t)
         IN IF ~f.ok THEN f.N
            ELSE LET N1 == [f.N EXCEPT
                              !.m_clients[f.client].playerName = playerName,
                              !.m_clients[f.client].isConnected = TRUE,
                              !.m_clients[f.client].lastPacketTime = t]
                     N2 == sendPacket(N1, address, <<WELCOME>> \o WriteBE32(f.client))
                     N3 == sendPacket(N2, address, <<SET_MAP>> \o mapName \o <<0>>)
                 IN spawnPlayer(N3, address, f.client)

handleClientInput(N, clientId) == N

handleClientDisconnect(N, clientId) == removeClient(N, clientId)

handleClientPong(N, clientId) == N

handlePacket(N, address, data, t) ==
    IF Len(data) = 0 THEN N
    ELSE LET found == ClientOf(N, address)
             N1 == IF found # {}
                   THEN [N EXCEPT !.m_clients[CHOOSE c \in found : TRUE].lastPacketTime = t]
                   ELSE N
             msgType == data[1]
         IN IF msgType = CONNECT_REQUEST
            THEN handleConnectRequest(N1, address, data, t)
            ELSE IF found # {} /\ N1.m_clients[CHOOSE c \in found : TRUE].isConnected
                 THEN LET clientId == CHOOSE c \in found : TRUE
                      IN CASE msgType = INPUT -> handleClientInput(N1, clientId)
                           [] msgType = DISCONNECT -> handleClientDisconnect(N1, clientId)
                           [] msgType = PONG -> handleClientPong(N1, clientId)
                           [] OTHER -> N1
                 ELSE N1

RECURSIVE removeAll(_, _)
removeAll(N, ids) ==
    IF ids = {} THEN N
    ELSE LET c == CHOOSE x \in ids : TRUE
         IN removeAll(removeClient(N, c), ids \ {c})

checkTimeouts_KeepsClients(N, currentTime) == N

checkTimeouts(N, currentTime) ==
    LET timedOutClients ==
           {c \in DOMAIN N.m_clients :
               /\ N.m_clients[c].isConnected
               /\ currentTime - N.m_clients[c].lastPacketTime > CONNECTION_TIMEOUT}
    IN removeAll(N, timedOutClients)

\* ------------------------------------------------------------------------
\* SpecEM: an EntityManager and the calls made on it
\* ------------------------------------------------------------------------
Survivor(id) ==
    [ptr |-> 1, id |-> U32(id), type |-> PLAYER, active |-> TRUE, pos |-> SpawnPos, rot |-> 0]

\* A manager as constructed (not yet initialized) ...
InitFresh ==
    /\ m_isInitialized = FALSE
    /\ m_nextEntityId = U32(1)
    /\ m_entities = <<>>
    /\ m_entityMap = EmptyMap
    /\ m_destructionQueue = <<>>
    /\ m_mapManager = FALSE
    /\ nextPtr = 1
    /\ returnLog = <<>>

\* ... or one that has been running for long: the counter holds its largest
\* value or has just wrapped to 0 (the call that returned UINT32_MAX is then
\* in the past, its entity destroyed), and an entity created early
\* (identity 1 or 2) is still alive.
InitLongRun ==
    /\ m_isInitialized = TRUE
    /\ m_nextEntityId \in {UINT32_MAX, U32(0)}
    /\ m_destructionQueue = <<>>
    /\ m_mapManager = TRUE
    /\ \E id \in 1..2 :
          /\ m_entities = <<Survivor(id)>>
          /\ m_entityMap = MapPut(EmptyMap, U32(id), 1)
          /\ nextPtr = 2
          /\ returnLog = <<[epoch |-> 0, id |-> U32(id)]>>
                            \o IF m_nextEntityId = U32(0)
                               THEN <<[epoch |-> 0, id |-> UINT32_MAX]>>
                               ELSE <<>>

NoArgs == [type |-> GENERIC, forceId |-> U32(0), fault |-> "none"]

InitHist ==
    /\ idEpoch = 0
    /\ lastCall = [op |-> "none", ok |-> TRUE]
    /\ lastArgs = NoArgs
    /\ foundList = <<>>
    /\ updLog = <<>>
    /\ rndLog = <<>>
    /\ dstLog = <<>>
    /\ queueBefore = <<>>

\* NetworkClient (NetworkClient.h:120-147)
VARIABLES
    netClient,               \* NetworkClient's m_isInitialized, m_clientSocket,
                             \* m_recvPacket, m_sendPacket, m_entityManager and
                             \* m_mapManager, each TRUE when set (not nullptr)
    m_connectionState,       \* ConnectionState, as its enumerator's value
    m_clientId,              \* uint32_t, 0 until the server's WELCOME
    m_serverAddress,         \* IPaddress resolved by connect
    m_lastServerPacketTime,  \* seconds (SDL_GetTicks() / 1000.0)
    m_inputSequenceNumber,   \* uint32_t
    m_mapName,               \* the client's MapManager::m_mapName (MapManager.h:90)
    seqEpoch,                \* history: how often m_inputSequenceNumber has wrapped
    inputLog,                \* history: the INPUT datagrams sent, as [epoch, seq]
    prevConn                 \* history: m_connectionState before the last client operation

cliVars == <<netClient, m_connectionState, m_clientId, m_serverAddress, m_lastServerPacketTime,
             m_inputSequenceNumber, m_mapName, seqEpoch, inputLog, prevConn>>

\* The server's own fields, which no client operation touches.
srvState == <<netServer, rcvVars, m_maxClients, m_clients, m_addressToClientIdMap,
              m_nextClientId, perfEpoch>>

\* enum class ConnectionState (NetworkClient.h:19-27)
DISCONNECTED == 0
SENDING_REQUEST == 2
CONNECTING == 3
CONNECTED == 4
CONNECTION_FAILED == 5

\* NetworkClient as constructed (NetworkClient.h:120-140) ...
ClientConstructed ==
    [m_isInitialized |-> FALSE, m_clientSocket |-> FALSE, m_recvPacket |-> FALSE,
     m_sendPacket |-> FALSE, m_entityManager |-> FALSE, m_mapManager |-> FALSE]

\* ... and after a successful NetworkClient::initialize.
ClientInitialized ==
    [m_isInitialized |-> TRUE, m_clientSocket |-> TRUE, m_recvPacket |-> TRUE,
     m_sendPacket |-> TRUE, m_entityManager |-> TRUE, m_mapManager |-> TRUE]

\* The client as constructed: not connected, nothing sent.
InitCliIdle ==
    /\ netClient = ClientConstructed
    /\ m_connectionState = DISCONNECTED
    /\ m_clientId = U32(0)
    /\ m_serverAddress = <<0, 0>>
    /\ m_lastServerPacketTime = 0
    /\ m_inputSequenceNumber = U32(0)
    /\ m_mapName = <<>>
    /\ seqEpoch = 0
    /\ inputLog = <<>>
    /\ prevConn = DISCONNECTED

NoPkt(op) == [op |-> op, addr |-> <<0, 0>>, data |-> <<>>, known |-> FALSE, count |-> 0]

\* The server as constructed, before NetworkServer::initialize.
\* NetworkServer as constructed (NetworkServer.h) ...
ServerConstructed ==
    [m_isInitialized |-> FALSE, m_serverSocket |-> FALSE, m_recvPacket |-> FALSE,
     m_entityManager |-> FALSE, m_mapManager |-> FALSE]

\* ... and after a successful NetworkServer::initialize.
ServerInitialized ==
    [m_isInitialized |-> TRUE, m_serverSocket |-> TRUE, m_recvPacket |-> TRUE,
     m_entityManager |-> TRUE, m_mapManager |-> TRUE]

NoDatagram == [addr |-> <<0, 0>>, data |-> <<>>]

\* No datagram is queued and receiveData is not running.
InitRcv ==
    /\ socketQueue = <<>>
    /\ recvPc = "idle"
    /\ recvPacket = NoDatagram
    /\ takenLog = <<>>
    /\ handledLog = <<>>

InitSrvIdle ==
    /\ netServer = ServerConstructed
    /\ InitRcv
    /\ m_maxClients = 0
    /\ m_clients = EmptyMap
    /\ m_addressToClientIdMap = EmptyMap
    /\ m_nextClientId = U32(1)
    /\ now = 0
    /\ perfEpoch = 0
    /\ sent = <<>>
    /\ lastPkt = NoPkt("none")

InitEM == (InitFresh \/ InitLongRun) /\ InitHist /\ InitSrvIdle /\ InitCliIdle

\* The enumerators the factory knows or could know, and a tag outside the
\* enumeration (static_cast of a byte off the wire).
EntityTypes == {GENERIC, PLAYER, PROJECTILE_BULLET, PROJECTILE_ROCKET, 200}
Faults == {"none", "bad_alloc", "init_throws"}

EMInitialize ==
    /\ SetEM(initialize(EM))
    /\ lastCall' = [op |-> "initialize", ok |-> TRUE]
    /\ queueBefore' = <<>>
    /\ lastArgs' = NoArgs
    /\ foundList' = <<>>

CreateEntity(type, forceId, fault) ==
    /\ nextPtr <= MaxAllocs
    /\ Len(m_entities) < MaxEntities
    /\ LET r == createEntity(EM, type, SpawnPos, 0, U32(forceId), fault)
       IN /\ SetEM(r.S)
          /\ lastCall' = [op |-> "createEntity", ok |-> r.ret # Null]
          /\ queueBefore' = <<>>
          /\ lastArgs' = [type |-> type, forceId |-> U32(forceId), fault |-> fault]
          /\ foundList' = <<>>

DestroyEntity(id) ==
    /\ SetEM(destroyEntity(EM, id))
    /\ lastCall' = [op |-> "destroyEntity", ok |-> TRUE]
    /\ queueBefore' = <<>>
    /\ lastArgs' = NoArgs
    /\ foundList' = <<>>

\* update() with hooks that may throw; ok: the call returned to its caller.
UpdateHooks(acts, faults, isServer) ==
    LET S == update(EM, acts, faults, isServer)
    IN /\ S.nextPtr <= MaxAllocs + 1
       /\ Len(S.m_entities) <= MaxEntities
       /\ SetEM(S)
       /\ lastCall' = [op |-> "update", ok |-> ~S.unwound]
       /\ queueBefore' = m_destructionQueue
       /\ lastArgs' = [acts |-> acts, faults |-> faults, isServer |-> isServer]
       /\ foundList' = <<>>

\* update() with hooks that throw nothing.
Update(acts, isServer) ==
    UpdateHooks(acts, [i \in DOMAIN acts |-> "none"], isServer)

Render ==
    /\ SetEM(render(EM))
    /\ lastCall' = [op |-> "render", ok |-> TRUE]
    /\ queueBefore' = <<>>
    /\ lastArgs' = NoArgs
    /\ foundList' = <<>>

\* The manager's public operations; none of them touches the server.
NextEM ==
    \/ EMInitialize /\ UNCHANGED <<srvVars, cliVars>>
    \/ \E type \in EntityTypes, forceId \in 0..MaxForcedId :
          \E fault \in IF type \in {PLAYER, PROJECTILE_BULLET} THEN Faults ELSE {"none"} :
             CreateEntity(type, forceId, fault) /\ UNCHANGED <<srvVars, cliVars>>
    \/ \E id \in {U32(n) : n \in 0..(MaxForcedId + 1)} \cup DOMAIN m_entityMap :
          DestroyEntity(id) /\ UNCHANGED <<srvVars, cliVars>>
    \/ \E acts \in [1..Len(m_entities) -> BOOLEAN], isServer \in BOOLEAN :
          Update(acts, isServer) /\ UNCHANGED <<srvVars, cliVars>>
    \/ Render /\ UNCHANGED <<srvVars, cliVars>>

vars == <<emVars, histVars, srvVars, cliVars>>

SpecEM == InitEM /\ [][NextEM]_vars


\* ------------------------------------------------------------------------
\* SpecQuery: a manager whose entities stand at several places, some of them
\* inactive, and the radius queries made on it
\* ------------------------------------------------------------------------
Positions == {<<0, 0>>, <<3, 4>>, <<100, 100>>}
Centers == {<<0, 0>>, <<3, 4>>}
Radii == {-1, 0, 4, 5}
Filters == {"none", "players", "never"}

CreateEntityAt(type, position) ==
    /\ nextPtr <= MaxAllocs
    /\ Len(m_entities) < MaxEntities
    /\ LET r == createEntity(EM, type, position, 0, U32(0), "none")
       IN /\ SetEM(r.S)
          /\ lastCall' = [op |-> "createEntity", ok |-> r.ret # Null]
          /\ lastArgs' = [type |-> type, forceId |-> U32(0), fault |-> "none"]
          /\ foundList' = <<>>
          /\ queueBefore' = <<>>

SetActive(ptr, active) ==
    /\ SetEM(setActive(EM, ptr, active))
    /\ lastCall' = [op |-> "setActive", ok |-> TRUE]
    /\ lastArgs' = NoArgs
    /\ foundList' = <<>>
    /\ queueBefore' = <<>>

FindEntitiesInRadius(center, radius, filter) ==
    /\ SetEM(EM)
    /\ foundList' = findEntitiesInRadius(EM, center, radius, filter)
    /\ lastCall' = [op |-> "findEntitiesInRadius", ok |-> TRUE]
    /\ lastArgs' = [center |-> center, radius |-> radius, filter |-> filter]
    /\ queueBefore' = <<>>

\* A manager just initialized, which then holds players and bullets; the
\* update hook of at most one of them throws during a pass.
HookFaults == {"none", "std_exception"}

InitHooks ==
    /\ m_isInitialized = TRUE
    /\ m_nextEntityId = U32(1)
    /\ m_entities = <<>>
    /\ m_entityMap = EmptyMap
    /\ m_destructionQueue = <<>>
    /\ m_mapManager = TRUE
    /\ nextPtr = 1
    /\ returnLog = <<>>
    /\ InitHist /\ InitSrvIdle /\ InitCliIdle

NextHooks ==
    \/ \E type \in {PLAYER, PROJECTILE_BULLET} :
          CreateEntity(type, 0, "none") /\ UNCHANGED <<srvVars, cliVars>>
    \/ \E id \in DOMAIN m_entityMap :
          DestroyEntity(id) /\ UNCHANGED <<srvVars, cliVars>>
    \/ \E acts \in [1..Len(m_entities) -> BOOLEAN], thrower \in 0..Len(m_entities),
          isServer \in BOOLEAN :
          UpdateHooks(acts,
                      [i \in 1..Len(m_entities) |->
                          IF i = thrower THEN "std_exception" ELSE "none"],
                      isServer)
             /\ UNCHANGED <<srvVars, cliVars>>
    \/ \E k \in 1..Len(m_entities) :
          SetActive(m_entities[k].ptr, FALSE) /\ UNCHANGED <<srvVars, cliVars>>

SpecHooks == InitHooks /\ [][NextHooks]_vars

\* The entities whose update hook one update() call has to invoke: those
\* that are active and not in the destruction queue when the call begins
\* (a hook queues no entity but its own).
DueForUpdate == SelectSeq(m_entities, LAMBDA e : e.active /\ ~InQueue(EM, e.id))

\* C34: when update hooks throw during EntityManager::update, the call still
\* returns to its caller, the hook of every active entity that was not
\* queued has been invoked once, in order, the destruction pass has run
\* (the queue is empty, every queued entity is gone and its onDestroy hook
\* was invoked), and the manager is left as if no hook had thrown.
C34_ThrowingHookIsContained ==
    [][ (/\ lastCall'.op = "update"
         /\ m_isInitialized
         /\ \E i \in DOMAIN lastArgs'.faults : lastArgs'.faults[i] # "none")
          => /\ lastCall'.ok
             /\ [k \in 1..Len(updLog') |-> updLog'[k].id]
                   = [k \in 1..Len(DueForUpdate) |-> DueForUpdate[k].id]
             /\ m_destructionQueue' = <<>>
             /\ \A k \in 1..Len(m_entities) :
                   InQueue(EM, m_entities[k].id)
                      => /\ m_entities[k].id \notin DOMAIN m_entityMap'
                         /\ \E j \in 1..Len(dstLog') : dstLog'[j].id = m_entities[k].id
             /\ \A k \in 1..Len(DueForUpdate) :
                   (DueForUpdate[k].type = PROJECTILE_BULLET
                      /\ \E i \in 1..Len(m_entities) :
                            m_entities[i].ptr = DueForUpdate[k].ptr /\ lastArgs'.acts[i])
                      => DueForUpdate[k].id \notin DOMAIN m_entityMap'
             /\ EM' = [update(EM, lastArgs'.acts,
                              [i \in DOMAIN lastArgs'.acts |-> "none"],
                              lastArgs'.isServer)
                         EXCEPT !.updLog = <<>>, !.dstLog = <<>>, !.rndLog = <<>>]
      ]_vars

\* The hook of the first of two due entities threw, the second hook was
\* invoked all the same, and the destruction pass removed a queued entity.
C34_Witness ==
    /\ lastCall.op = "update"
    /\ lastCall.ok
    /\ Len(lastArgs.faults) >= 2
    /\ lastArgs.faults[1] = "std_exception"
    /\ Len(updLog) >= 2
    /\ dstLog # <<>>
    /\ m_destructionQueue = <<>>

NextQuery ==
    \/ EMInitialize /\ UNCHANGED <<srvVars, cliVars>>
    \/ \E type \in {PLAYER, PROJECTILE_BULLET}, position \in Positions :
          CreateEntityAt(type, position) /\ UNCHANGED <<srvVars, cliVars>>
    \/ \E k \in 1..Len(m_entities), active \in BOOLEAN :
          SetActive(m_entities[k].ptr, active) /\ UNCHANGED <<srvVars, cliVars>>
    \/ \E center \in Centers, radius \in Radii, filter \in Filters :
          FindEntitiesInRadius(center, radius, filter) /\ UNCHANGED <<srvVars, cliVars>>

\* A manager as constructed; initialize is among the calls.
InitQuery == InitFresh /\ InitHist /\ InitSrvIdle /\ InitCliIdle

SpecQuery == InitQuery /\ [][NextQuery]_vars

\* ------------------------------------------------------------------------
\* SpecServer: a running server, the datagrams it receives and the clock
\* ------------------------------------------------------------------------
Addresses == {<<1, 1>>, <<1, 2>>, <<2, 1>>}

ConnectRequest(protoId, version, name) ==
    <<CONNECT_REQUEST>> \o protoId \o version \o name \o <<0>>

ValidConnect == ConnectRequest(<<84, 85, 88, 65>>, <<0, 1>>, <<65>>)

Packets ==
    { ValidConnect,
      ConnectRequest(<<65, 88, 85, 84>>, <<0, 1>>, <<65>>),   \* identifier not swapped
      ConnectRequest(<<84, 85, 88, 65>>, <<1, 0>>, <<65>>),   \* version 256
      ConnectRequest(<<84, 85, 88, 65>>, <<0, 1>>, <<>>),     \* 8 bytes: too short
      <<CONNECT_REQUEST>>,                                    \* the type byte alone
      <<INPUT, 0, 0, 0, 1>>,
      <<DISCONNECT>>,
      <<PONG>>,
      <<9>>,
      <<>> }

\* After Game has initialized the manager and then the server
\* (EntityManager::initialize, NetworkServer::initialize).
InitServer ==
    /\ m_isInitialized = TRUE
    /\ m_nextEntityId = U32(1)
    /\ m_entities = <<>>
    /\ m_entityMap = EmptyMap
    /\ m_destructionQueue = <<>>
    /\ m_mapManager = TRUE
    /\ nextPtr = 1
    /\ returnLog = <<>>
    /\ InitHist
    /\ netServer = ServerInitialized
    /\ InitRcv
    /\ m_maxClients \in 1..MaxCapacity
    /\ m_clients = EmptyMap
    /\ m_addressToClientIdMap = EmptyMap
    /\ m_nextClientId = U32(1)
    /\ now = 0
    /\ perfEpoch \in {0, MaxPerfEpoch}
    /\ sent = <<>>
    /\ lastPkt = NoPkt("none")
    /\ InitCliIdle

\* receiveData hands one datagram to handlePacket.
HandlePacket(address, data) ==
    LET N == handlePacket(SV, address, data, now)
    IN /\ Len(N.em.m_entities) <= MaxSpawns
       /\ SetSV(N)
       /\ UNCHANGED <<now, perfEpoch, cliVars>>
       /\ lastCall' = [op |-> "handlePacket", ok |-> TRUE]
       /\ queueBefore' = <<>>
       /\ lastArgs' = NoArgs
       /\ foundList' = <<>>
       /\ lastPkt' = [op |-> "handlePacket", addr |-> address, data |-> data,
                      known |-> \E c \in DOMAIN m_clients : m_clients[c].address = address,
                      count |-> Cardinality(DOMAIN m_clients)]

\* Game::networkUpdateReceive passes the frame time it took from the
\* performance counter.
frameTime == now + perfEpoch

CheckTimeouts ==
    /\ SetSV(checkTimeouts(SV, frameTime))
    /\ UNCHANGED <<now, perfEpoch, cliVars>>
    /\ lastCall' = [op |-> "checkTimeouts", ok |-> TRUE]
    /\ queueBefore' = <<>>
    /\ lastArgs' = NoArgs
    /\ foundList' = <<>>
    /\ lastPkt' = [NoPkt("checkTimeouts") EXCEPT !.count = Cardinality(DOMAIN m_clients)]

Tick ==
    /\ now + TickStep <= MaxTime
    /\ now' = now + TickStep
    /\ sent' = <<>>
    /\ lastPkt' = NoPkt("tick")
    /\ UNCHANGED <<emVars, histVars, srvState, cliVars>>

\* Game::update on the server: the manager's update with isServer set.
ServerUpdate ==
    /\ Update([i \in 1..Len(m_entities) |-> TRUE], TRUE)
    /\ sent' = <<>>
    /\ lastPkt' = NoPkt("update")
    /\ UNCHANGED <<srvState, now, cliVars>>

NextServer ==
    \/ \E address \in Addresses, data \in Packets : HandlePacket(address, data)
    \/ CheckTimeouts
    \/ Tick
    \/ ServerUpdate

SpecServer == InitServer /\ [][NextServer]_vars

\* One frame of the game loop (Game::run): the frame time is read from the
\* clock, which has advanced, and networkUpdateReceive ends with
\* checkTimeouts at that time.  The loop runs as long as the game does.
Frame ==
    /\ now + TickStep <= MaxTime
    /\ now' = now + TickStep
    /\ SetSV(checkTimeouts(SV, now + TickStep + perfEpoch))
    /\ UNCHANGED <<perfEpoch, cliVars>>
    /\ lastCall' = [op |-> "checkTimeouts", ok |-> TRUE]
    /\ queueBefore' = <<>>
    /\ lastArgs' = NoArgs
    /\ foundList' = <<>>
    /\ lastPkt' = [NoPkt("checkTimeouts") EXCEPT !.count = Cardinality(DOMAIN m_clients)]

\* The datagrams of well-behaved clients.
ClientPackets == {ValidConnect, <<INPUT, 0, 0, 0, 1>>, <<DISCONNECT>>}

NextServerFair ==
    \/ \E address \in Addresses, data \in ClientPackets : HandlePacket(address, data)
    \/ Frame

SpecServerFair == InitServer /\ [][NextServerFair]_vars /\ WF_vars(Frame)

\* ------------------------------------------------------------------------
\* NetworkServer::receiveData, one socket read at a time, while datagrams
\* keep arriving at the socket.
\* ------------------------------------------------------------------------

\* SDLNet_UDP_Recv on a non-blocking socket: 1 and the oldest queued
\* datagram, 0 when none is queued, -1 on an error.
SDLNet_UDP_Recv(queue, err) ==
    IF err THEN [n |-> -1, packet |-> NoDatagram, queue |-> queue]
    ELSE IF queue = <<>> THEN [n |-> 0, packet |-> NoDatagram, queue |-> queue]
    ELSE [n |-> 1, packet |-> Head(queue), queue |-> Tail(queue)]

\* The effect of one read on the socket, the packet buffer and the record
\* of what was taken; a failed read leaves the buffer as it was.
Recv(r) ==
    /\ socketQueue' = r.queue
    /\ recvPacket' = IF r.n > 0 THEN r.packet ELSE recvPacket
    /\ takenLog' = IF r.n > 0 THEN Append(takenLog, r.packet) ELSE takenLog

ReceiveOp ==
    /\ UNCHANGED <<now, perfEpoch, cliVars>>
    /\ lastCall' = [op |-> "receiveData", ok |-> TRUE]
    /\ queueBefore' = <<>>
    /\ lastArgs' = NoArgs
    /\ foundList' = <<>>

\* A datagram reaches the socket.
Arrive(address, data) ==
    /\ Len(takenLog) + Len(socketQueue) < MaxDatagrams
    /\ socketQueue' = Append(socketQueue, [addr |-> address, data |-> data])
    /\ UNCHANGED <<recvPc, recvPacket, takenLog, handledLog>>
    /\ SetServer(SV)
    /\ lastPkt' = NoPkt("arrive")
    /\ ReceiveOp

\* receiveData is called: the guard and the read before the loop.
ReceiveEnter(err) ==
    /\ recvPc = "idle"
    /\ IF ~netServer.m_isInitialized \/ ~netServer.m_serverSocket
       THEN UNCHANGED rcvVars
       ELSE LET r == SDLNet_UDP_Recv(socketQueue, err)
            IN /\ Recv(r)
               /\ recvPc' = IF r.n > 0 THEN "loop" ELSE "after"
               /\ UNCHANGED handledLog
    /\ SetServer(SV)
    /\ lastPkt' = NoPkt("receiveData")
    /\ ReceiveOp

\* One pass of the loop body: handlePacket on the buffer, then the next read.
ReceiveLoop(err) ==
    /\ recvPc = "loop"
    /\ LET N == handlePacket(SV, recvPacket.addr, recvPacket.data, now)
           r == SDLNet_UDP_Recv(socketQueue, err)
       IN /\ Len(N.em.m_entities) <= MaxSpawns
          /\ SetServer(N)
          /\ handledLog' = Append(handledLog, recvPacket)
          /\ Recv(r)
          /\ recvPc' = IF r.n > 0 THEN "loop" ELSE "after"
          /\ lastPkt' = [op |-> "handlePacket", addr |-> recvPacket.addr,
                         data |-> recvPacket.data,
                         known |-> \E c \in DOMAIN m_clients :
                                      m_clients[c].address = recvPacket.addr,
                         count |-> Cardinality(DOMAIN m_clients)]
    /\ ReceiveOp

\* The read after the loop (NetworkServer.cpp:159), whose packet nothing
\* looks at; receiveData returns.
ReceiveAfter(err) ==
    /\ recvPc = "after"
    /\ Recv(SDLNet_UDP_Recv(socketQueue, err))
    /\ recvPc' = "idle"
    /\ UNCHANGED handledLog
    /\ SetServer(SV)
    /\ lastPkt' = NoPkt("receiveData")
    /\ ReceiveOp

NextReceive ==
    \/ \E address \in Addresses, data \in {ValidConnect, <<DISCONNECT>>} :
          Arrive(address, data)
    \/ \E err \in BOOLEAN : ReceiveEnter(err)
    \/ \E err \in BOOLEAN : ReceiveLoop(err)
    \/ \E err \in BOOLEAN : ReceiveAfter(err)

SpecReceive == InitServer /\ [][NextReceive]_vars

\* ------------------------------------------------------------------------
\* NetworkClient (src/src/NetworkClient.cpp)
\* ------------------------------------------------------------------------
STATE_UPDATE == 103
DESTROY_ENTITY == 105
PING == 106

\* The client and its manager as one value, threaded through the calls;
\* sent collects the datagrams handed to SDLNet_UDP_Send.
CL ==
    [m_connectionState |-> m_connectionState, m_clientId |-> m_clientId,
     m_serverAddress |-> m_serverAddress,
     m_lastServerPacketTime |-> m_lastServerPacketTime,
     m_inputSequenceNumber |-> m_inputSequenceNumber, m_mapName |-> m_mapName,
     seqEpoch |-> seqEpoch, inputLog |-> inputLog, net |-> netClient,
     sent |-> <<>>, em |-> EM]

SetCL(C) ==
    /\ netClient' = C.net
    /\ m_connectionState' = C.m_connectionState
    /\ m_clientId' = C.m_clientId
    /\ m_serverAddress' = C.m_serverAddress
    /\ m_lastServerPacketTime' = C.m_lastServerPacketTime
    /\ m_inputSequenceNumber' = C.m_inputSequenceNumber
    /\ m_mapName' = C.m_mapName
    /\ seqEpoch' = C.seqEpoch
    /\ inputLog' = C.inputLog
    /\ sent' = C.sent
    /\ SetEM(C.em)

WriteBE16(v) == <<v \div 256, v % 256>>

\* memcpy of a uint32_t in host byte order (little-endian), as
\* sendUpdates writes and handleStateUpdate reads entity identities.
WriteNative32_BigEndian(v) == <<v[1] \div 256, v[1] % 256, v[2] \div 256, v[2] % 256>>

WriteNative32(v) == <<v[2] % 256, v[2] \div 256, v[1] % 256, v[1] \div 256>>

ReadNative32(data, off) ==
    <<data[off + 4] * 256 + data[off + 3], data[off + 2] * 256 + data[off + 1]>>

\* memcpy into a float on a little-endian host: the value whose bytes these
\* are, for the values FloatBytes encodes.
BytesFloat(b) ==
    CASE b = <<0, 0, 0, 0>> -> 0
      [] b = <<0, 0, 200, 66>> -> 100

ReadFloat(data, off) == BytesFloat(SubSeq(data, off + 1, off + 4))

\* The name the player connects under: "A".
m_playerName == <<65>>

\* NetworkClient::sendPacketToServer.  sendOk: SDLNet_UDP_Send sent it.
sendPacketToServer(C, data, sendOk) ==
    IF C.m_connectionState < SENDING_REQUEST THEN [C |-> C, ok |-> FALSE]
    ELSE IF Len(data) <= 0 \/ Len(data) > MAX_PACKET_SIZE THEN [C |-> C, ok |-> FALSE]
    ELSE IF ~sendOk THEN [C |-> C, ok |-> FALSE]
    ELSE [C |-> [C EXCEPT !.sent = Append(@, [to |-> C.m_serverAddress, data |-> data])],
          ok |-> TRUE]

\* NetworkClient::connect.  resolveOk: SDLNet_ResolveHost resolved the name
\* to address.  Returns the client afterwards and the value returned.
connect_IgnoresState(C, address, resolveOk, sendOk, t) ==
    IF ~resolveOk
    THEN [C |-> [C EXCEPT !.m_connectionState = CONNECTION_FAILED], ret |-> FALSE]
    ELSE LET C1 == [C EXCEPT !.m_serverAddress = address,
                             !.m_connectionState = SENDING_REQUEST]
             buffer == <<CONNECT_REQUEST>> \o WriteBE32(PROTOCOL_ID)
                          \o WriteBE16(PROTOCOL_VERSION) \o m_playerName \o <<0>>
             r == sendPacketToServer(C1, buffer, sendOk)
         IN IF ~r.ok
            THEN [C |-> [r.C EXCEPT !.m_connectionState = CONNECTION_FAILED],
                  ret |-> FALSE]
            ELSE [C |-> [r.C EXCEPT !.m_connectionState = CONNECTING,
                                    !.m_lastServerPacketTime = t],
                  ret |-> TRUE]

connect(C, address, resolveOk, sendOk, t) ==
    IF C.m_connectionState # DISCONNECTED THEN [C |-> C, ret |-> FALSE]
    ELSE IF ~resolveOk
    THEN [C |-> [C EXCEPT !.m_connectionState = CONNECTION_FAILED], ret |-> FALSE]
    ELSE LET C1 == [C EXCEPT !.m_serverAddress = address,
                             !.m_connectionState = SENDING_REQUEST]
             buffer == <<CONNECT_REQUEST>> \o WriteBE32(PROTOCOL_ID)
                          \o WriteBE16(PROTOCOL_VERSION) \o m_playerName \o <<0>>
             r == sendPacketToServer(C1, buffer, sendOk)
         IN IF ~r.ok
            THEN [C |-> [r.C EXCEPT !.m_connectionState = CONNECTION_FAILED],
                  ret |-> FALSE]
            ELSE [C |-> [r.C EXCEPT !.m_connectionState = CONNECTING,
                                    !.m_lastServerPacketTime = t],
                  ret |-> TRUE]

\* NetworkClient::disconnect
disconnect_KeepsClientId(C, sendOk) ==
    IF C.m_connectionState = DISCONNECTED THEN C
    ELSE LET C1 == IF C.m_connectionState = CONNECTED
                   THEN sendPacketToServer(C, <<DISCONNECT>>, sendOk).C
                   ELSE C
         IN [C1 EXCEPT !.m_connectionState = DISCONNECTED]

disconnect(C, sendOk) ==
    IF C.m_connectionState = DISCONNECTED THEN C
    ELSE LET C1 == IF C.m_connectionState = CONNECTED
                   THEN sendPacketToServer(C, <<DISCONNECT>>, sendOk).C
                   ELSE C
         IN [C1 EXCEPT !.m_connectionState = DISCONNECTED, !.m_clientId = U32(0)]

\* NetworkClient::sendInput
sendInput_NoIncrement(C, sendOk) ==
    IF C.m_connectionState # CONNECTED THEN C
    ELSE LET seq == C.m_inputSequenceNumber
             r == sendPacketToServer(C, <<INPUT>> \o WriteBE32(seq), sendOk)
         IN IF r.ok
            THEN [r.C EXCEPT !.inputLog = Append(@, [epoch |-> C.seqEpoch, seq |-> seq])]
            ELSE r.C

sendInput(C, sendOk) ==
    IF C.m_connectionState # CONNECTED THEN C
    ELSE LET seq == C.m_inputSequenceNumber
             C1 == [C EXCEPT !.m_inputSequenceNumber = U32Inc(@),
                             !.seqEpoch = IF seq = UINT32_MAX THEN @ + 1 ELSE @]
             r == sendPacketToServer(C1, <<INPUT>> \o WriteBE32(seq), sendOk)
         IN IF r.ok
            THEN [r.C EXCEPT !.inputLog = Append(@, [epoch |-> C.seqEpoch, seq |-> seq])]
            ELSE r.C

\* NetworkClient::handleWelcome
handleWelcome_NoLengthCheck(C, data) ==
    IF Len(data) < 1 + 4 THEN [C EXCEPT !.m_connectionState = CONNECTED]
    ELSE [C EXCEPT !.m_clientId = ReadBE32(data, 1), !.m_connectionState = CONNECTED]

handleWelcome(C, data) ==
    IF Len(data) < 1 + 4 THEN C
    ELSE [C EXCEPT !.m_clientId = ReadBE32(data, 1), !.m_connectionState = CONNECTED]

\* NetworkClient::handleReject
handleReject(C, data) ==
    disconnect([C EXCEPT !.m_connectionState = CONNECTION_FAILED], TRUE)

\* Entity::setPosition and Entity::setRotation on the entity at ptr.
setTransform_PositionOnly(S, ptr, position, rotation) ==
    [S EXCEPT !.m_entities =
        [k \in 1..Len(@) |-> IF @[k].ptr = ptr
                             THEN [@[k] EXCEPT !.pos = position]
                             ELSE @[k]]]

setTransform(S, ptr, position, rotation) ==
    [S EXCEPT !.m_entities =
        [k \in 1..Len(@) |-> IF @[k].ptr = ptr
                             THEN [@[k] EXCEPT !.pos = position, !.rot = rotation]
                             ELSE @[k]]]

\* The loop of NetworkClient::handleStateUpdate over the snapshot's entries,
\* offset being the C offset of entry i.
RECURSIVE applyEntries(_, _, _, _, _, _)
applyEntries(S, data, offset, i, numEntities, fault) ==
    IF i >= numEntities THEN S
    ELSE IF offset + 4 + 1 + 3 * 4 > Len(data) THEN S
    ELSE LET entityId == ReadNative32(data, offset)
             entityType == data[offset + 4 + 1]
             position == <<ReadFloat(data, offset + 5), ReadFloat(data, offset + 9)>>
             rotation == ReadFloat(data, offset + 13)
             entity == getEntityById(S, entityId)
             S1 == IF entity # Null
                   THEN setTransform(S, entity, position, rotation)
                   ELSE createEntity(S, entityType, position, rotation, entityId, fault).S
         IN applyEntries(S1, data, offset + 17, i + 1, numEntities, fault)

\* NetworkClient::handleStateUpdate.  A datagram shorter than its header
\* leaves the entry count to the receive buffer's old bytes, and the loop,
\* if entered, stops at its first length test.
handleStateUpdate(C, data, fault) ==
    IF Len(data) < 1 + 8 + 1 THEN C
    ELSE [C EXCEPT !.em = applyEntries(@, data, 10, 0, data[10], fault)]

\* m_recvPacket->data after SDLNet_UDP_Recv has stored a datagram in it: the
\* datagram's bytes, and behind them what the buffer held before (stale: the
\* bytes of earlier datagrams, or what SDLNet_AllocPacket's malloc left).
Buffered(data, stale) ==
    [k \in 1..(IF Len(data) > Len(stale) THEN Len(data) ELSE Len(stale)) |->
        IF k <= Len(data) THEN data[k] ELSE stale[k]]

\* NetworkClient::handleSpawnEntity: it reads its eighteen bytes from the
\* buffer without looking at the datagram's length.
handleSpawnEntity(C, data, fault, stale) ==
    LET buffer == Buffered(data, stale)
        entityId == ReadBE32(buffer, 1)
        type == buffer[5 + 1]
        position == <<ReadFloat(buffer, 6), ReadFloat(buffer, 10)>>
        rot == ReadFloat(buffer, 14)
    IN [C EXCEPT !.em = createEntity(@, type, position, rot, entityId, fault).S]

\* NetworkClient::handleDestroyEntity
handleDestroyEntity(C, data) ==
    LET entityId == U32(0)
    IN [C EXCEPT !.em = destroyEntity(@, entityId)]

\* NetworkClient::handlePing
handlePing(C, sendOk) == sendPacketToServer(C, <<PONG>>, sendOk).C

\* EntityManager::clearAllEntities (declared in EntityManager.h): flushes the
\* destruction queue, empties both collections and resets the counter.
clearAllEntities(S) ==
    [processDestructionQueue(S) EXCEPT
        !.m_entities = <<>>, !.m_entityMap = EmptyMap,
        !.m_destructionQueue = <<>>, !.m_nextEntityId = U32(1)]

\* MapManager::createFallbackMap names the map it builds "fallback_map".
FallbackMapName == <<102, 97, 108, 108, 98, 97, 99, 107, 95, 109, 97, 112>>

\* MapManager::loadMap, as far as the client sees it: the name the manager
\* holds afterwards and the value returned.  outcome: "loaded" (the file
\* was read), "fallback" (it was not, and the fallback map was built) or
\* "failed" (no map could be set up).
loadMap(filePath, outcome) ==
    CASE outcome = "loaded" -> [name |-> filePath, ret |-> TRUE]
      [] outcome = "fallback" -> [name |-> FallbackMapName, ret |-> TRUE]
      [] OTHER -> [name |-> filePath, ret |-> FALSE]

\* NetworkClient::handleSetMap.  map: the outcome of loadMap, should it be
\* called.  strncpy takes the name from the buffer up to the first NUL,
\* whether or not that lies within the datagram.
handleSetMap_KeepsEntities(C, data, map, sendOk, stale) ==
    LET buffer == Buffered(data, stale)
        name == CString(SubSeq(buffer, 2, Len(buffer)))
    IN IF C.m_mapName = name THEN C
       ELSE LET l == loadMap(name, map)
                C1 == [C EXCEPT !.m_mapName = l.name]
            IN IF ~l.ret
               THEN [disconnect(C1, sendOk) EXCEPT !.m_connectionState = CONNECTION_FAILED]
               ELSE C1

handleSetMap(C, data, map, sendOk, stale) ==
    LET buffer == Buffered(data, stale)
        name == CString(SubSeq(buffer, 2, Len(buffer)))
    IN IF C.m_mapName = name THEN C
       ELSE LET l == loadMap(name, map)
                C1 == [C EXCEPT !.m_mapName = l.name]
            IN IF ~l.ret
               THEN [disconnect(C1, sendOk) EXCEPT !.m_connectionState = CONNECTION_FAILED]
               ELSE [C1 EXCEPT !.em = clearAllEntities(@)]

\* NetworkClient::handlePacket.  env: what the environment does during the
\* handler (fault of an entity creation, map, sendOk).
clientHandlePacket_AnyState(C, data, env) ==
    IF Len(data) = 0 THEN C
    ELSE LET type == data[1]
         IN CASE type = WELCOME -> handleWelcome(C, data)
              [] type = STATE_UPDATE -> handleStateUpdate(C, data, env.fault)
              [] type = SPAWN_ENTITY -> handleSpawnEntity(C, data, env.fault, env.stale)
              [] type = DESTROY_ENTITY -> handleDestroyEntity(C, data)
              [] type = PING -> handlePing(C, env.sendOk)
              [] type = SET_MAP -> handleSetMap(C, data, env.map, env.sendOk, env.stale)
              [] type = REJECT -> disconnect(C, env.sendOk)
              [] OTHER -> C

clientHandlePacket(C, data, env) ==
    IF Len(data) = 0 THEN C
    ELSE LET type == data[1]
         IN IF C.m_connectionState = CONNECTING
            THEN IF type = WELCOME THEN handleWelcome(C, data)
                 ELSE IF type = REJECT THEN handleReject(C, data)
                 ELSE C
            ELSE IF C.m_connectionState = CONNECTED
            THEN CASE type = STATE_UPDATE -> handleStateUpdate(C, data, env.fault)
                   [] type = SPAWN_ENTITY -> handleSpawnEntity(C, data, env.fault, env.stale)
                   [] type = DESTROY_ENTITY -> handleDestroyEntity(C, data)
                   [] type = PING -> handlePing(C, env.sendOk)
                   [] type = SET_MAP -> handleSetMap(C, data, env.map, env.sendOk, env.stale)
                   [] type = REJECT -> disconnect(C, env.sendOk)
                   [] OTHER -> C
            ELSE C

\* The timeout check that ends NetworkClient::receiveData.
checkServerTimeout_Never(C, currentTime, sendOk) == C

checkServerTimeout(C, currentTime, sendOk) ==
    IF /\ C.m_connectionState \in {CONNECTING, CONNECTED}
       /\ currentTime - C.m_lastServerPacketTime > CONNECTION_TIMEOUT
    THEN IF C.m_connectionState = CONNECTING
         THEN [C EXCEPT !.m_connectionState = CONNECTION_FAILED]
         ELSE disconnect(C, sendOk)
    ELSE C

\* The sender test of NetworkClient::receiveData: host and port are those of
\* the resolved server address.
IsServerAddress_HostOnly(C, address) == address[1] = C.m_serverAddress[1]

IsServerAddress(C, address) ==
    address[1] = C.m_serverAddress[1] /\ address[2] = C.m_serverAddress[2]

\* The receive loop of NetworkClient::receiveData over the datagrams the
\* socket holds, each a record [addr, data].
RECURSIVE receiveLoop(_, _, _, _)
receiveLoop(C, packets, t, env) ==
    IF packets = <<>> THEN C
    ELSE LET p == Head(packets)
             C1 == IF IsServerAddress(C, p.addr)
                   THEN clientHandlePacket([C EXCEPT !.m_lastServerPacketTime = t],
                                           p.data, env)
                   ELSE C
         IN receiveLoop(C1, Tail(packets), t, env)

\* NetworkClient::receiveData
receiveData(C, packets, t, env) ==
    checkServerTimeout(receiveLoop(C, packets, t, env), t, env.sendOk)

\* EntityManager::getActiveEntities
getActiveEntities(S) ==
    IF ~S.m_isInitialized THEN <<>>
    ELSE SelectSeq(S.m_entities, LAMBDA e : e.active)

\* sizeof(uint32_t) + sizeof(uint8_t) + 3 * sizeof(float): the bytes of one
\* entry of a STATE_UPDATE.
ENTITY_DATA_SIZE == 4 + 1 + (3 * 4)

\* The room test of the serialization loop of NetworkServer::sendUpdates:
\* the loop breaks when it fails.
HasRoom_Always(bytesWritten) == TRUE

HasRoom(bytesWritten) == ~(bytesWritten + ENTITY_DATA_SIZE > MAX_PACKET_SIZE)

\* The bytes the loop writes for one entity.
entityData(e) ==
    WriteNative32(e.id) \o <<e.type>>
       \o FloatBytes(e.pos[1]) \o FloatBytes(e.pos[2]) \o FloatBytes(e.rot)

\* The serialization loop of NetworkServer::sendUpdates from entity i on:
\* it makes passes until the entities end or the room test fails, every
\* pass appending one entry and counting it in numEntities (a uint8_t).
encodeEntries(entities, i, buffer, count) ==
    LET rest == Len(entities) - i + 1
        stops == {k \in 0..rest : k = rest \/ ~HasRoom(Len(buffer) + (ENTITY_DATA_SIZE * k))}
        passes == CHOOSE k \in stops : \A j \in stops : k <= j
        written == [k \in 1..(ENTITY_DATA_SIZE * passes) |->
                      entityData(entities[i + ((k - 1) \div ENTITY_DATA_SIZE)])
                                [((k - 1) % ENTITY_DATA_SIZE) + 1]]
    IN [buffer |-> buffer \o written, count |-> (count + passes) % 256]

\* The STATE_UPDATE datagram NetworkServer::sendUpdates builds from the
\* server's manager S at SDL_GetTicks64() = ms.
stateUpdate(S, ms) ==
    LET header == <<STATE_UPDATE, ms % 256, (ms \div 256) % 256, 0, 0, 0, 0, 0, 0, 0>>
        r == encodeEntries(getActiveEntities(S), 1, header, 0)
    IN [k \in 1..Len(r.buffer) |-> IF k = 10 THEN r.count ELSE r.buffer[k]]

\* ------------------------------------------------------------------------
\* SpecClient: an initialized client, what the game calls on it, the
\* datagrams that reach its socket and the clock
\* ------------------------------------------------------------------------
ServerAddress == <<1, 1>>

\* Entities a server's manager holds after its clients have connected and
\* moved: players with identities 1 and 2, one possibly inactive.
SrvEnt(id, x, rotation, active) ==
    [ptr |-> id, id |-> U32(id), type |-> PLAYER, active |-> active,
     pos |-> <<x, 100>>, rot |-> rotation]

ServerWorlds ==
    { <<>>,
      <<SrvEnt(1, 100, 0, TRUE)>>,
      <<SrvEnt(1, 0, 100, TRUE), SrvEnt(2, 100, 0, TRUE)>>,
      <<SrvEnt(1, 100, 0, FALSE), SrvEnt(2, 0, 0, TRUE)>> }

ServerManager(entities) == [m_isInitialized |-> TRUE, m_entities |-> entities]

Snapshots(ms) == {stateUpdate(ServerManager(w), ms) : w \in ServerWorlds}

DestroyDatagram(id) == <<DESTROY_ENTITY>> \o WriteBE32(U32(id))

SpawnDatagram(id) ==
    <<SPAWN_ENTITY>> \o WriteBE32(U32(id)) \o <<PLAYER>>
       \o FloatBytes(SpawnPos[1]) \o FloatBytes(SpawnPos[2]) \o FloatBytes(0)

SetMapDatagram(name) == <<SET_MAP>> \o name \o <<0>>

\* The maps a server may run: "m1" and "m2".
MapNames == {mapName, <<109, 50>>}

\* The server's messages about the connection.
HandshakeDatagrams == {<<WELCOME>> \o WriteBE32(U32(1)), <<REJECT, 1>>}

\* What can arrive while connecting and connected: every message type of
\* the server (the snapshot of a server without entities), a WELCOME cut
\* short, an unknown type and an empty datagram.
ServerDatagrams(ms) ==
    HandshakeDatagrams \cup
    { <<WELCOME, 0>>,
      stateUpdate(ServerManager(<<>>), ms),
      SpawnDatagram(1),
      DestroyDatagram(1),
      <<PING>>,
      SetMapDatagram(mapName),
      <<9>>,
      <<>> }

MapOutcomes == {"loaded", "fallback", "failed"}

\* A receive buffer that holds zeros behind the datagram.
ZeroBuffer == [k \in 1..(1 + 4 + 1 + 3 * 4) |-> 0]

\* What the receive buffer may hold behind a short datagram: zeros, or the
\* bytes of an earlier SPAWN_ENTITY or SET_MAP datagram.
StaleBuffers ==
    {ZeroBuffer, SpawnDatagram(2), Buffered(SetMapDatagram(<<109, 50>>), ZeroBuffer)}

\* Datagrams cut short of the fields their type carries, and an unknown type.
ShortDatagrams ==
    { <<SPAWN_ENTITY>>,
      <<SPAWN_ENTITY>> \o WriteBE32(U32(1)),
      <<STATE_UPDATE>>,
      <<STATE_UPDATE, 0, 0, 0, 0, 0, 0, 0, 0, 1>>,
      <<DESTROY_ENTITY>>,
      <<SET_MAP>>,
      <<9>> }

\* After Game has initialized the manager and then the client; a client
\* that has run for long has used up most sequence numbers.
InitClient ==
    /\ m_isInitialized = TRUE
    /\ m_nextEntityId = U32(1)
    /\ m_entities = <<>>
    /\ m_entityMap = EmptyMap
    /\ m_destructionQueue = <<>>
    /\ m_mapManager = TRUE
    /\ nextPtr = 1
    /\ returnLog = <<>>
    /\ InitHist
    /\ InitSrvIdle
    /\ netClient = ClientInitialized
    /\ m_connectionState = DISCONNECTED
    /\ m_clientId = U32(0)
    /\ m_serverAddress = <<0, 0>>
    /\ m_lastServerPacketTime = 0
    /\ m_mapName = <<>>
    /\ seqEpoch = 0
    /\ \/ m_inputSequenceNumber = U32(0) /\ inputLog = <<>>
       \/ /\ m_inputSequenceNumber = UINT32_MAX
          /\ inputLog = <<[epoch |-> 0, seq |-> <<U16_MOD - 1, U16_MOD - 2>>]>>
    /\ prevConn = DISCONNECTED

ClientOp(op, ok) ==
    /\ prevConn' = m_connectionState
    /\ lastCall' = [op |-> op, ok |-> ok]
    /\ queueBefore' = <<>>
    /\ lastArgs' = NoArgs
    /\ foundList' = <<>>
    /\ UNCHANGED <<srvState, now>>

Connect(address, resolveOk, sendOk) ==
    LET r == connect(CL, address, resolveOk, sendOk, now)
    IN /\ SetCL(r.C)
       /\ lastPkt' = [NoPkt("connect") EXCEPT !.addr = address]
       /\ ClientOp("connect", r.ret)

Disconnect(sendOk) ==
    /\ SetCL(disconnect(CL, sendOk))
    /\ lastPkt' = NoPkt("disconnect")
    /\ ClientOp("disconnect", sendOk)

SendInput(sendOk) ==
    /\ m_inputSequenceNumber = UINT32_MAX \/ m_inputSequenceNumber[2] < MaxInputs
    /\ SetCL(sendInput(CL, sendOk))
    /\ lastPkt' = NoPkt("sendInput")
    /\ ClientOp("sendInput", sendOk)

\* receiveData with the socket holding the given datagrams.
ReceiveData(packets, env) ==
    LET C == receiveData(CL, packets, now, env)
    IN /\ Len(C.em.m_entities) <= MaxEntities
       /\ C.em.nextPtr <= MaxAllocs + 1
       /\ SetCL(C)
       /\ lastPkt' = IF packets = <<>> THEN NoPkt("receiveData")
                     ELSE [op |-> "receiveData", addr |-> packets[1].addr,
                           data |-> packets[1].data,
                           known |-> packets[1].addr = m_serverAddress,
                           count |-> Len(m_entities)]
       /\ ClientOp("receiveData", env.fault = "none")

\* Game::update on a client: the manager's update, no entity acting.
ClientUpdate ==
    /\ Update([i \in 1..Len(m_entities) |-> FALSE], FALSE)
    /\ sent' = <<>>
    /\ lastPkt' = [NoPkt("update") EXCEPT !.count = Len(m_entities)]
    /\ prevConn' = m_connectionState
    /\ UNCHANGED <<srvState, now, netClient, m_connectionState, m_clientId,
                   m_serverAddress, m_lastServerPacketTime, m_inputSequenceNumber, m_mapName, seqEpoch,
                   inputLog>>

\* What the environment can do while the datagram is handled.
Envs(data) ==
    IF data # <<>> /\ data[1] = SET_MAP
    THEN {[fault |-> "none", map |-> "failed", sendOk |-> TRUE, stale |-> ZeroBuffer]}
    ELSE {[fault |-> "none", map |-> "loaded", sendOk |-> b, stale |-> ZeroBuffer] : b \in BOOLEAN}

NextClient ==
    \/ \E resolveOk \in BOOLEAN, sendOk \in BOOLEAN :
          Connect(ServerAddress, resolveOk, sendOk)
    \/ \E sendOk \in BOOLEAN : Disconnect(sendOk)
    \/ \E sendOk \in BOOLEAN : SendInput(sendOk)
    \/ \E data \in ServerDatagrams(now * 1000) : \E env \in Envs(data) :
          ReceiveData(<<[addr |-> ServerAddress, data |-> data]>>, env)
    \/ \E data \in HandshakeDatagrams :
          ReceiveData(<<[addr |-> <<1, 2>>, data |-> data]>>,
                      [fault |-> "none", map |-> "loaded", sendOk |-> TRUE, stale |-> ZeroBuffer])
    \/ \E sendOk \in BOOLEAN :
          ReceiveData(<<>>, [fault |-> "none", map |-> "loaded", sendOk |-> sendOk, stale |-> ZeroBuffer])
    \/ Tick

SpecClient == InitClient /\ [][NextClient]_vars

\* The same client while other hosts, and other ports of the server's host,
\* send it every message a server can send.
OtherAddresses == {<<1, 2>>, <<2, 1>>}

NextOthers ==
    \/ \E sendOk \in BOOLEAN : Connect(ServerAddress, TRUE, sendOk)
    \/ Disconnect(TRUE)
    \/ \E data \in HandshakeDatagrams \cup {SpawnDatagram(1)} :
          ReceiveData(<<[addr |-> ServerAddress, data |-> data]>>,
                      [fault |-> "none", map |-> "loaded", sendOk |-> TRUE, stale |-> ZeroBuffer])
    \/ \E address \in OtherAddresses, data \in ServerDatagrams(now * 1000) :
          \E env \in Envs(data) :
             ReceiveData(<<[addr |-> address, data |-> data]>>, env)
    \/ \E sendOk \in BOOLEAN :
          ReceiveData(<<>>, [fault |-> "none", map |-> "loaded", sendOk |-> sendOk, stale |-> ZeroBuffer])
    \/ Tick

SpecOthers == InitClient /\ [][NextOthers]_vars

\* C37: a receiveData call that finds a datagram from another address than
\* the server's (another host, or another port) does what it does when it
\* finds none: connection state and client identity are those the timeout
\* check alone leaves, the replicas and the last-server-packet time are
\* unchanged, so such a datagram neither connects the client nor puts off
\* its timeout.
C37_OtherSendersAreIgnored ==
    [][ (lastPkt'.op = "receiveData" /\ lastPkt'.addr \in OtherAddresses)
          => /\ \E sendOk \in BOOLEAN :
                   LET C0 == checkServerTimeout(CL, now, sendOk)
                   IN /\ m_connectionState' = C0.m_connectionState
                      /\ m_clientId' = C0.m_clientId
                      /\ sent' = C0.sent
             /\ m_lastServerPacketTime' = m_lastServerPacketTime
             /\ m_entities' = m_entities
             /\ m_entityMap' = m_entityMap
             /\ m_destructionQueue' = m_destructionQueue
             /\ m_mapName' = m_mapName
             /\ m_connectionState' = CONNECTED => m_connectionState = CONNECTED
             /\ (m_connectionState \in {CONNECTING, CONNECTED}
                   /\ now - m_lastServerPacketTime > CONNECTION_TIMEOUT)
                  => m_connectionState' \in {DISCONNECTED, CONNECTION_FAILED}
      ]_vars

\* The messages a client applies to its replicas, its map or answers.
GameplayTypes == {STATE_UPDATE, SPAWN_ENTITY, DESTROY_ENTITY, PING, SET_MAP}

\* C38: a datagram from the server's address leaves connection state, client
\* identity and replicas (and the map name; nothing is sent) unchanged when
\* it is a STATE_UPDATE, SPAWN_ENTITY, DESTROY_ENTITY, PING or SET_MAP
\* reaching a CONNECTING client, and whatever it is when the client is
\* DISCONNECTED or CONNECTION_FAILED.
C38_GameplayOnlyWhileConnected ==
    [][ (/\ lastPkt'.op = "receiveData"
         /\ lastPkt'.known
         /\ \/ /\ m_connectionState = CONNECTING
               /\ lastPkt'.data # <<>>
               /\ lastPkt'.data[1] \in GameplayTypes
            \/ m_connectionState \in {DISCONNECTED, CONNECTION_FAILED})
          => /\ m_connectionState' = m_connectionState
             /\ m_clientId' = m_clientId
             /\ m_entities' = m_entities
             /\ m_entityMap' = m_entityMap
             /\ m_destructionQueue' = m_destructionQueue
             /\ m_mapName' = m_mapName
             /\ sent' = <<>>
      ]_vars

\* A SPAWN_ENTITY from the server has reached a client that is connecting:
\* it is still connecting and holds no replica.
C38_Witness ==
    /\ lastPkt.op = "receiveData"
    /\ lastPkt.known
    /\ lastPkt.data = SpawnDatagram(1)
    /\ prevConn = CONNECTING
    /\ m_connectionState = CONNECTING
    /\ m_entities = <<>>

\* A WELCOME from the server's host but another port has reached a client
\* that is connecting, and the client is still connecting, without identity.
C37_Witness ==
    /\ lastPkt.op = "receiveData"
    /\ lastPkt.addr = <<1, 2>>
    /\ lastPkt.data = <<WELCOME>> \o WriteBE32(U32(1))
    /\ prevConn = CONNECTING
    /\ m_connectionState = CONNECTING
    /\ m_clientId = U32(0)

\* ------------------------------------------------------------------------
\* SpecReplica: a connected client, the entity messages of its server and
\* the manager's update
\* ------------------------------------------------------------------------
\* After connect() and the server's WELCOME.
InitReplica ==
    /\ m_isInitialized = TRUE
    /\ m_nextEntityId = U32(1)
    /\ m_entities = <<>>
    /\ m_entityMap = EmptyMap
    /\ m_destructionQueue = <<>>
    /\ m_mapManager = TRUE
    /\ nextPtr = 1
    /\ returnLog = <<>>
    /\ InitHist
    /\ InitSrvIdle
    /\ netClient = ClientInitialized
    /\ m_connectionState = CONNECTED
    /\ m_clientId = U32(1)
    /\ m_serverAddress = ServerAddress
    /\ m_lastServerPacketTime = 0
    /\ m_inputSequenceNumber = U32(0)
    /\ m_mapName = <<>>
    /\ seqEpoch = 0
    /\ inputLog = <<>>
    /\ prevConn = CONNECTING

FromServerAddress(data, fault, map) ==
    ReceiveData(<<[addr |-> ServerAddress, data |-> data]>>,
                [fault |-> fault, map |-> map, sendOk |-> TRUE, stale |-> ZeroBuffer])

NextReplica ==
    \/ \E data \in Snapshots(now * 1000), fault \in {"none", "bad_alloc"} :
          FromServerAddress(data, fault, "loaded")
    \/ \E fault \in {"none", "bad_alloc"} :
          FromServerAddress(SpawnDatagram(1), fault, "loaded")
    \/ \E id \in 1..2 : FromServerAddress(DestroyDatagram(id), "none", "loaded")
    \/ \E name \in MapNames, map \in MapOutcomes :
          FromServerAddress(SetMapDatagram(name), "none", map)
    \/ \E data \in ShortDatagrams, stale \in StaleBuffers :
          ReceiveData(<<[addr |-> ServerAddress, data |-> data]>>,
                      [fault |-> "none", map |-> "loaded", sendOk |-> TRUE, stale |-> stale])
    \/ ClientUpdate

SpecReplica == InitReplica /\ [][NextReplica]_vars

\* One frame of the game loop on a client (Game::run): the clock has
\* advanced and networkUpdateReceive calls receiveData, whatever has arrived.
ReceiveFrame(packets, env) ==
    LET C == receiveData(CL, packets, now + TickStep, env)
    IN /\ now + TickStep <= MaxTime
       /\ now' = now + TickStep
       /\ Len(C.em.m_entities) <= MaxEntities
       /\ C.em.nextPtr <= MaxAllocs + 1
       /\ SetCL(C)
       /\ lastPkt' = IF packets = <<>> THEN NoPkt("receiveData")
                     ELSE [op |-> "receiveData", addr |-> packets[1].addr,
                           data |-> packets[1].data,
                           known |-> packets[1].addr = m_serverAddress,
                           count |-> Len(m_entities)]
       /\ prevConn' = m_connectionState
       /\ lastCall' = [op |-> "receiveData", ok |-> TRUE]
       /\ queueBefore' = <<>>
       /\ lastArgs' = NoArgs
       /\ foundList' = <<>>
       /\ UNCHANGED srvState

AnyReceiveFrame ==
    \/ \E sendOk \in BOOLEAN :
          ReceiveFrame(<<>>, [fault |-> "none", map |-> "loaded", sendOk |-> sendOk, stale |-> ZeroBuffer])
    \/ \E address \in {ServerAddress, <<1, 2>>},
          data \in HandshakeDatagrams \cup {<<WELCOME, 0>>, <<PING>>} :
          ReceiveFrame(<<[addr |-> address, data |-> data]>>,
                       [fault |-> "none", map |-> "loaded", sendOk |-> TRUE, stale |-> ZeroBuffer])

NextClientFair ==
    \/ \E resolveOk \in BOOLEAN, sendOk \in BOOLEAN :
          Connect(ServerAddress, resolveOk, sendOk)
    \/ \E sendOk \in BOOLEAN : Disconnect(sendOk)
    \/ \E data \in HandshakeDatagrams :
          ReceiveData(<<[addr |-> ServerAddress, data |-> data]>>,
                      [fault |-> "none", map |-> "loaded", sendOk |-> TRUE, stale |-> ZeroBuffer])
    \/ AnyReceiveFrame

SpecClientFair == InitClient /\ [][NextClientFair]_vars /\ WF_vars(AnyReceiveFrame)

-----------------------------------------------------------------------------
(* The life cycle of the three components: initialize and shutdown of the   *)
(* manager, of the server and of the client, with the operations that fill  *)
(* them in between.                                                        *)

\* Constants.h:14
MAX_PLAYERS == 8

\* How far NetworkServer::initialize and NetworkClient::initialize get:
\* SDLNet_Init, SDLNet_UDP_Open or SDLNet_AllocPacket fails, or none does.
InitOutcomes == {"ok", "net_init_fails", "open_fails", "alloc_fails"}

\* NetworkServer::initialize
serverInitialize(N, maxClients, entityManager, mapManager, outcome) ==
    IF N.net.m_isInitialized THEN N
    ELSE LET N1 == [N EXCEPT !.m_maxClients = IF maxClients > 0 THEN maxClients
                                              ELSE MAX_PLAYERS,
                             !.net.m_entityManager = entityManager,
                             !.net.m_mapManager = mapManager]
         IN IF ~entityManager \/ ~mapManager THEN N1
            ELSE IF outcome = "net_init_fails" THEN N1
            ELSE IF outcome = "open_fails" THEN [N1 EXCEPT !.net.m_serverSocket = FALSE]
            ELSE IF outcome = "alloc_fails"
                 THEN [N1 EXCEPT !.net.m_recvPacket = FALSE, !.net.m_serverSocket = FALSE]
                 ELSE [N1 EXCEPT !.net.m_serverSocket = TRUE, !.net.m_recvPacket = TRUE,
                                 !.m_clients = EmptyMap,
                                 !.m_addressToClientIdMap = EmptyMap,
                                 !.m_nextClientId = U32(1),
                                 !.net.m_isInitialized = TRUE]

\* NetworkServer::shutdown
serverShutdown_NoGuard(N) ==
    [N EXCEPT !.net = ServerConstructed,
              !.m_clients = EmptyMap, !.m_addressToClientIdMap = EmptyMap]

serverShutdown(N) ==
    IF ~N.net.m_isInitialized THEN N
    ELSE [N EXCEPT !.net.m_serverSocket = FALSE, !.net.m_recvPacket = FALSE,
                   !.m_clients = EmptyMap, !.m_addressToClientIdMap = EmptyMap,
                   !.net.m_entityManager = FALSE, !.net.m_mapManager = FALSE,
                   !.net.m_isInitialized = FALSE]

\* NetworkClient::initialize
clientInitialize(C, entityManager, mapManager, outcome) ==
    IF C.net.m_isInitialized THEN C
    ELSE LET C1 == [C EXCEPT !.net.m_entityManager = entityManager,
                             !.net.m_mapManager = mapManager]
         IN IF ~entityManager \/ ~mapManager THEN C1
            ELSE IF outcome = "net_init_fails" THEN C1
            ELSE IF outcome \in {"alloc_fails", "open_fails"}
                 THEN [C1 EXCEPT !.net.m_recvPacket = FALSE, !.net.m_sendPacket = FALSE]
                 ELSE [C1 EXCEPT !.net.m_recvPacket = TRUE, !.net.m_sendPacket = TRUE,
                                 !.net.m_clientSocket = TRUE,
                                 !.m_connectionState = DISCONNECTED,
                                 !.net.m_isInitialized = TRUE]

\* NetworkClient::isConnected
isConnected(C) == C.net.m_isInitialized /\ C.m_connectionState = CONNECTED

\* NetworkClient::shutdown
clientShutdown(C, sendOk) ==
    IF ~C.net.m_isInitialized THEN C
    ELSE LET C1 == IF isConnected(C) THEN disconnect(C, sendOk) ELSE C
         IN [C1 EXCEPT !.net.m_clientSocket = FALSE,
                       !.net.m_recvPacket = FALSE, !.net.m_sendPacket = FALSE,
                       !.net.m_entityManager = FALSE, !.net.m_mapManager = FALSE,
                       !.m_connectionState = DISCONNECTED,
                       !.net.m_isInitialized = FALSE]

EMShutdown ==
    /\ SetEM(shutdown(EM))
    /\ lastCall' = [op |-> "shutdown", ok |-> TRUE]
    /\ queueBefore' = <<>>
    /\ lastArgs' = NoArgs
    /\ foundList' = <<>>

ServerOp(op) ==
    /\ UNCHANGED <<now, perfEpoch, cliVars>>
    /\ lastCall' = [op |-> op, ok |-> TRUE]
    /\ queueBefore' = <<>>
    /\ lastArgs' = NoArgs
    /\ foundList' = <<>>
    /\ lastPkt' = NoPkt(op)

\* The owner wires the manager to a server or to a client (Game.cpp:121-131).
ServerInitialize(maxClients, entityManager, mapManager, outcome) ==
    /\ ~netClient.m_entityManager
    /\ SetSV(serverInitialize(SV, maxClients, entityManager, mapManager, outcome))
    /\ ServerOp("serverInitialize")

ServerShutdown ==
    /\ SetSV(serverShutdown(SV))
    /\ ServerOp("serverShutdown")

\* receiveData of a server with an open socket, one datagram queued.
ServerReceive(address, data) ==
    /\ netServer.m_isInitialized /\ netServer.m_serverSocket
    /\ nextPtr <= MaxAllocs
    /\ HandlePacket(address, data)

ClientInitialize(entityManager, mapManager, outcome) ==
    /\ ~netServer.m_entityManager
    /\ SetCL(clientInitialize(CL, entityManager, mapManager, outcome))
    /\ lastPkt' = NoPkt("clientInitialize")
    /\ ClientOp("clientInitialize", TRUE)

ClientShutdown(sendOk) ==
    /\ SetCL(clientShutdown(CL, sendOk))
    /\ lastPkt' = NoPkt("clientShutdown")
    /\ ClientOp("clientShutdown", TRUE)

\* connect and receiveData return at once on a client that is not
\* initialized (NetworkClient.cpp:123, 229).
ClientConnect(address) ==
    /\ netClient.m_isInitialized
    /\ Connect(address, TRUE, TRUE)

ClientReceive(data) ==
    /\ netClient.m_isInitialized /\ netClient.m_clientSocket
    /\ nextPtr <= MaxAllocs
    /\ ReceiveData(<<[addr |-> ServerAddress, data |-> data]>>,
                   [fault |-> "none", map |-> "loaded", sendOk |-> TRUE,
                    stale |-> ZeroBuffer])

NextLife ==
    \/ EMInitialize /\ UNCHANGED <<srvVars, cliVars>>
    \/ EMShutdown /\ UNCHANGED <<srvVars, cliVars>>
    \/ CreateEntity(PLAYER, 0, "none") /\ UNCHANGED <<srvVars, cliVars>>
    \/ DestroyEntity(U32(1)) /\ UNCHANGED <<srvVars, cliVars>>
    \/ \E entityManager \in BOOLEAN, outcome \in InitOutcomes :
          ServerInitialize(1, entityManager, TRUE, outcome)
    \/ ServerShutdown
    \/ ServerReceive(<<1, 2>>, ValidConnect)
    \/ \E entityManager \in BOOLEAN, outcome \in InitOutcomes :
          ClientInitialize(entityManager, TRUE, outcome)
    \/ ClientShutdown(TRUE)
    \/ ClientConnect(ServerAddress)
    \/ ClientReceive(<<WELCOME>> \o WriteBE32(U32(1)))

InitLife == InitFresh /\ InitHist /\ InitSrvIdle /\ InitCliIdle

SpecLife == InitLife /\ [][NextLife]_vars

-----------------------------------------------------------------------------
(* NetworkServer::sendUpdates on servers that hold few entities or more     *)
(* than one datagram takes.                                                 *)

\* The order of uint32_t values held as halves.
U32Less(a, b) == a[1] < b[1] \/ (a[1] = b[1] /\ a[2] < b[2])

\* NetworkServer::broadcastPacket without an excluded address; m_clients is
\* a std::map, iterated in the order of the client identities.
RECURSIVE broadcastLoop(_, _, _)
broadcastLoop(N, ids, data) ==
    IF ids = {} THEN N
    ELSE LET c == CHOOSE x \in ids : \A y \in ids : x = y \/ U32Less(x, y)
             N1 == IF N.m_clients[c].isConnected
                   THEN sendPacket(N, N.m_clients[c].address, data)
                   ELSE N
         IN broadcastLoop(N1, ids \ {c}, data)

broadcastPacket(N, data) ==
    IF ~N.net.m_isInitialized \/ ~N.net.m_serverSocket THEN N
    ELSE broadcastLoop(N, DOMAIN N.m_clients, data)

\* NetworkServer::sendUpdates at SDL_GetTicks64() = ms.
sendUpdates(N, ms) ==
    IF ~N.net.m_isInitialized THEN N
    ELSE LET buffer == IF N.net.m_entityManager THEN stateUpdate(N.em, ms)
                       ELSE stateUpdate(ServerManager(<<>>), ms)
         IN IF DOMAIN N.m_clients # {} THEN broadcastPacket(N, buffer) ELSE N

\* Entries that fit behind the type byte, the timestamp and the count byte.
EntriesThatFit == (MAX_PACKET_SIZE - (1 + 8 + 1)) \div ENTITY_DATA_SIZE

AddressList == <<<<1, 1>>, <<1, 2>>, <<2, 1>>>>

\* The player entities of n handshakes, none destroyed since ...
World(n) ==
    [k \in 1..n |-> [ptr |-> k, id |-> U32(k), type |-> PLAYER, active |-> TRUE,
                     pos |-> SpawnPos, rot |-> 0]]

\* ... and the ClientInfo records of the k clients that came first and are
\* still registered.
Registered(k) ==
    [c \in {U32(j) : j \in 1..k} |->
        [clientId |-> c, address |-> AddressList[c[2]], playerName |-> <<65>>,
         lastPacketTime |-> 0, lastInputSequence |-> 0, isConnected |-> TRUE,
         playerEntity |-> c[2]]]

\* A server after n handshakes of which k clients are left, n being k or
\* about what one datagram takes.
InitUpdates ==
    \E k \in 0..MaxCapacity :
      \E n \in {k} \cup {EntriesThatFit + d : d \in 0..MaxOverflow} :
        /\ k <= Len(AddressList)
        /\ m_isInitialized = TRUE
        /\ m_nextEntityId = U32(n + 1)
        /\ m_entities = World(n)
        /\ m_entityMap = [id \in {U32(j) : j \in 1..n} |-> id[2]]
        /\ m_destructionQueue = <<>>
        /\ m_mapManager = TRUE
        /\ nextPtr = n + 1
        /\ returnLog = [j \in 1..n |-> [epoch |-> 0, id |-> U32(j)]]
        /\ InitHist
        /\ netServer = ServerInitialized
        /\ InitRcv
        /\ m_maxClients = MaxCapacity
        /\ m_clients = Registered(k)
        /\ m_addressToClientIdMap = [a \in {AddressList[j] : j \in 1..k} |->
                                       CHOOSE c \in DOMAIN Registered(k) :
                                          Registered(k)[c].address = a]
        /\ m_nextClientId = U32(k + 1)
        /\ now = 0
        /\ perfEpoch = 0
        /\ sent = <<>>
        /\ lastPkt = NoPkt("none")
        /\ InitCliIdle

\* Game::networkUpdateSend
SendUpdates ==
    /\ SetSV(sendUpdates(SV, now * 1000))
    /\ UNCHANGED <<now, perfEpoch, cliVars>>
    /\ lastCall' = [op |-> "sendUpdates", ok |-> TRUE]
    /\ queueBefore' = <<>>
    /\ lastArgs' = NoArgs
    /\ foundList' = <<>>
    /\ lastPkt' = [NoPkt("sendUpdates") EXCEPT !.count = Cardinality(DOMAIN m_clients)]

NextUpdates ==
    \/ SendUpdates
    \/ Tick
    \/ \E ptr \in {1, EntriesThatFit}, active \in BOOLEAN :
          SetActive(ptr, active) /\ UNCHANGED <<srvVars, cliVars>>
    \/ \E address \in Addresses : HandlePacket(address, <<DISCONNECT>>)

SpecUpdates == InitUpdates /\ [][NextUpdates]_vars

\* The clients broadcastPacket sends to.
ConnectedClients == {c \in DOMAIN m_clients : m_clients[c].isConnected}

\* C33: a call of sendUpdates hands the socket one STATE_UPDATE for each
\* connected client and none when there is no client; the message is never
\* longer than MAX_PACKET_SIZE, its count byte is the number of entries
\* behind it, and the entries are those of the first active entities, as
\* many as fit, the others being left out.
C33_SnapshotFitsAndReachesEveryClient ==
    [][lastCall'.op = "sendUpdates" /\ lastPkt'.op = "sendUpdates" =>
          LET act == SelectSeq(m_entities, LAMBDA e : e.active)
              n == IF Len(act) < EntriesThatFit THEN Len(act) ELSE EntriesThatFit
          IN /\ Len(sent') = Cardinality(ConnectedClients)
             /\ \A c \in ConnectedClients :
                   Cardinality({k \in 1..Len(sent') :
                                   sent'[k].to = m_clients[c].address}) = 1
             /\ DOMAIN m_clients = {} => sent' = <<>>
             /\ \A k \in 1..Len(sent') :
                   LET d == sent'[k].data
                   IN /\ Len(d) <= MAX_PACKET_SIZE
                      /\ d[1] = STATE_UPDATE
                      /\ Len(d) = 10 + (ENTITY_DATA_SIZE * d[10])
                      /\ d[10] = n
                      /\ \A j \in 1..n :
                            ReadNative32(d, 10 + (ENTITY_DATA_SIZE * (j - 1))) = act[j].id
    ]_vars

\* A server with two clients and more active entities than a datagram takes
\* has sent both a full snapshot.
C33_Witness ==
    /\ lastCall.op = "sendUpdates"
    /\ lastPkt.op = "sendUpdates"
    /\ Cardinality(ConnectedClients) = 2
    /\ Len(SelectSeq(m_entities, LAMBDA e : e.active)) > EntriesThatFit
    /\ Len(sent) = 2
    /\ sent[1].to # sent[2].to
    /\ sent[1].data[10] = EntriesThatFit
    /\ Len(sent[1].data) <= MAX_PACKET_SIZE

-----------------------------------------------------------------------------
(* Properties of the entity manager, checked under SpecEM.                 *)

HookCount(log, id) == Cardinality({k \in 1..Len(log) : log[k].id = id})

\* C1 (as stated): every successful createEntity call without a forced
\* identity returns an identity that is non-zero and distinct from the
\* identity returned by every other successful such call.
C1_AllReturnedIdsDistinct ==
    /\ \A k \in 1..Len(returnLog) : returnLog[k].id # U32(0)
    /\ \A i, j \in 1..Len(returnLog) :
          i # j => returnLog[i].id # returnLog[j].id

\* C1 (amended): every successful createEntity call without a forced identity
\* returns a non-zero identity, and two such calls return distinct identities
\* unless the 32-bit counter wrapped and was reset between them.
C1_ReturnedIdsDistinctUntilWrap ==
    /\ \A k \in 1..Len(returnLog) : returnLog[k].id # U32(0)
    /\ \A i, j \in 1..Len(returnLog) :
          (i # j /\ returnLog[i].epoch = returnLog[j].epoch)
             => returnLog[i].id # returnLog[j].id

\* C1 witness: a createEntity call without forced identity has just succeeded,
\* an earlier one succeeded under the same counter run, and an identity
\* returned earlier has since been destroyed and removed by update().
C1_Witness ==
    /\ lastCall = [op |-> "createEntity", ok |-> TRUE]
    /\ Len(returnLog) >= 2
    /\ returnLog[Len(returnLog)].id \in DOMAIN m_entityMap
    /\ \E i \in 1..(Len(returnLog) - 1) :
          /\ returnLog[i].epoch = returnLog[Len(returnLog)].epoch
          /\ returnLog[i].id \notin DOMAIN m_entityMap

\* C2: no two held entities share an identity, no held entity has identity
\* 0, and getEntityById(id) returns the held entity whose identity is id and
\* none for an identity that is 0 or not held.
C2_HeldIdentitiesUnique ==
    /\ \A i, j \in 1..Len(m_entities) :
          i # j => m_entities[i].id # m_entities[j].id
    /\ \A i \in 1..Len(m_entities) :
          /\ m_entities[i].id # U32(0)
          /\ getEntityById(EM, m_entities[i].id) = m_entities[i].ptr
    /\ getEntityById(EM, U32(0)) = Null
    /\ \A n \in 1..(MaxForcedId + 1) :
          (\A i \in 1..Len(m_entities) : m_entities[i].id # U32(n))
             => getEntityById(EM, U32(n)) = Null

\* C3: after destroyEntity(id) on a held entity followed by one update() call,
\* getEntityById(id) returns none and the on-destroy hook has been invoked
\* exactly once for id.
C3_DestroyedOnceAfterUpdate ==
    lastCall.op = "update" =>
       \A k \in 1..Len(queueBefore) :
          /\ getEntityById(EM, queueBefore[k]) = Null
          /\ HookCount(dstLog, queueBefore[k]) = 1

C22_UnknownTypeCreatesNothing ==
    [][ (lastCall'.op = "createEntity" /\ lastArgs'.type \notin {PLAYER, PROJECTILE_BULLET})
          => /\ ~lastCall'.ok
             /\ m_entities' = m_entities
             /\ m_entityMap' = m_entityMap
             /\ m_nextEntityId' = m_nextEntityId ]_vars

\* C22 witness: an initialized manager that holds an entity has just refused
\* a createEntity call for PROJECTILE_ROCKET.
C22_Witness ==
    /\ lastCall = [op |-> "createEntity", ok |-> FALSE]
    /\ lastArgs.type = PROJECTILE_ROCKET
    /\ m_isInitialized
    /\ m_entities # <<>>

\* C23: a createEntity call during which the entity's initialize hook
\* throws returns no entity and leaves the ordered collection and the lookup
\* table as they were.
C23_InitializeThrowsRegistersNothing ==
    [][ (lastCall'.op = "createEntity" /\ lastArgs'.fault = "init_throws")
          => /\ ~lastCall'.ok
             /\ m_entities' = m_entities
             /\ m_entityMap' = m_entityMap ]_vars

\* C23 witness: after one entity was created, the initialize hook of a
\* second one has thrown: the call took identity 2 from the counter and the
\* manager still holds one entity.
C23_Witness ==
    /\ lastCall = [op |-> "createEntity", ok |-> FALSE]
    /\ lastArgs = [type |-> PLAYER, forceId |-> U32(0), fault |-> "init_throws"]
    /\ m_isInitialized
    /\ idEpoch = 0
    /\ m_nextEntityId = U32(3)
    /\ Len(m_entities) = 1
    /\ DOMAIN m_entityMap = {U32(1)}

\* C30: a createEntity call that reaches the identity assignment while the
\* counter is 0 resets the counter to 1; if identity 1 is held, the call
\* returns no entity, registers nothing and leaves the counter at 1;
\* otherwise the new entity gets identity 1 (and the counter moves on to 2).
\* No held entity ever has identity 0.
C30_WrappedCounterRestartsAtOne ==
    /\ [][ ( /\ lastCall'.op = "createEntity"
              /\ lastArgs'.type \in {PLAYER, PROJECTILE_BULLET}
              /\ lastArgs'.forceId = U32(0)
              /\ lastArgs'.fault # "bad_alloc"
              /\ m_isInitialized
              /\ m_nextEntityId = U32(0) )
              => IF U32(1) \in DOMAIN m_entityMap
                 THEN /\ ~lastCall'.ok
                      /\ m_entities' = m_entities
                      /\ m_entityMap' = m_entityMap
                      /\ m_nextEntityId' = U32(1)
                 ELSE /\ m_nextEntityId' = U32(2)
                      /\ lastArgs'.fault = "none"
                            => /\ lastCall'.ok
                               /\ Len(m_entities') = Len(m_entities) + 1
                               /\ m_entities'[Len(m_entities')].id = U32(1)
                               /\ m_entityMap'[U32(1)] = m_entities'[Len(m_entities')].ptr ]_vars
    /\ [](\A i \in 1..Len(m_entities) : m_entities[i].id # U32(0))
    /\ [](U32(0) \notin DOMAIN m_entityMap)

\* C30 witness: the counter had wrapped to 0 while the entity with identity
\* 1 was still held, and the next createEntity call has failed, leaving the
\* counter at 1.
C30_Witness ==
    /\ lastCall = [op |-> "createEntity", ok |-> FALSE]
    /\ lastArgs = [type |-> PLAYER, forceId |-> U32(0), fault |-> "none"]
    /\ idEpoch = 1
    /\ m_nextEntityId = U32(1)
    /\ DOMAIN m_entityMap = {U32(1)}
    /\ Len(m_entities) = 1

\* The held entities a radius query is to return: active, within the radius
\* of the centre (squared distance at most the squared radius), satisfying the
\* predicate if there is one.
InRadius(center, radius, filter) ==
    {k \in 1..Len(m_entities) :
        /\ m_entities[k].active
        /\ (m_entities[k].pos[1] - center[1]) * (m_entities[k].pos[1] - center[1])
             + (m_entities[k].pos[2] - center[2]) * (m_entities[k].pos[2] - center[2])
               <= radius * radius
        /\ filter = "players" => m_entities[k].type = PLAYER
        /\ filter # "never"}

\* C24: findEntitiesInRadius(center, r, predicate) on an initialized manager
\* returns each held active entity within the radius that satisfies the
\* predicate, once, and nothing else; for a negative r it returns nothing;
\* and it leaves the manager as it was.
C24_RadiusQueryExact ==
    [][ lastCall'.op = "findEntitiesInRadius"
          => /\ UNCHANGED emVars
             /\ IF lastArgs'.radius < 0 \/ ~m_isInitialized
                THEN foundList' = <<>>
                ELSE /\ SeqToSet(foundList')
                          = {m_entities[k].ptr :
                               k \in InRadius(lastArgs'.center, lastArgs'.radius,
                                              lastArgs'.filter)}
                     /\ Len(foundList') = Cardinality(SeqToSet(foundList')) ]_vars

\* C24 witness: a query of radius 5 around the origin, without predicate, on
\* a manager that holds an entity at distance exactly 5 and an inactive
\* entity at the origin has returned the first one only.
C24_Witness ==
    /\ lastCall.op = "findEntitiesInRadius"
    /\ lastArgs = [center |-> <<0, 0>>, radius |-> 5, filter |-> "none"]
    /\ Len(m_entities) = 2
    /\ m_entities[1].pos = <<0, 0>> /\ ~m_entities[1].active
    /\ m_entities[2].pos = <<3, 4>> /\ m_entities[2].active
    /\ foundList = <<m_entities[2].ptr>>

\* The members of each component, without the observation that the model
\* carries along.
EMFields(S) ==
    <<S.m_isInitialized, S.m_nextEntityId, S.m_entities, S.m_entityMap,
      S.m_destructionQueue, S.m_mapManager>>

ServerFields(N) ==
    <<N.net, N.m_maxClients, N.m_clients, N.m_addressToClientIdMap, N.m_nextClientId>>

ClientFields(C) ==
    <<C.net, C.m_connectionState, C.m_clientId, C.m_serverAddress,
      C.m_lastServerPacketTime, C.m_inputSequenceNumber, C.m_mapName>>

\* C27: shutdown() of the manager, of the server and of the client changes
\* nothing when the component is not initialized (never initialized, its
\* initialize failed part-way, or already shut down), and a second call
\* right after a first leaves the state the first call left.
C27_ShutdownIdempotent ==
    [][ /\ lastCall'.op = "shutdown"
           => /\ ~m_isInitialized => UNCHANGED emVars
              /\ EMFields(shutdown(EM')) = EMFields(EM')
        /\ lastCall'.op = "serverShutdown"
           => /\ ~netServer.m_isInitialized
                    => (UNCHANGED <<srvState, emVars>> /\ sent' = <<>>)
              /\ ServerFields(serverShutdown(SV')) = ServerFields(SV')
              /\ EMFields(serverShutdown(SV').em) = EMFields(EM')
        /\ lastCall'.op = "clientShutdown"
           => /\ ~netClient.m_isInitialized
                    => (UNCHANGED <<netClient, m_connectionState, m_clientId,
                                    m_serverAddress, m_lastServerPacketTime,
                                    m_inputSequenceNumber, m_mapName, emVars>>
                        /\ sent' = <<>>)
              /\ \A sendOk \in BOOLEAN :
                    /\ ClientFields(clientShutdown(CL', sendOk)) = ClientFields(CL')
                    /\ EMFields(clientShutdown(CL', sendOk).em) = EMFields(EM') ]_vars

\* shutdown() has been called on a server whose initialize had stored the
\* manager's pointer and then failed, and the pointer is still stored.
C27_Witness ==
    /\ lastCall.op = "serverShutdown"
    /\ ~netServer.m_isInitialized
    /\ netServer.m_entityManager

\* The second half of C29: update() invokes the hook of no entity that was
\* created during that same call.
NewEntityNotUpdatedInSamePass ==
    [][ (lastCall'.op = "update" /\ m_isInitialized)
          => \A k \in 1..Len(updLog') :
                \E j \in 1..Len(m_entities) : m_entities[j].id = updLog'[k].id ]_vars

\* C29: a createEntity call made from an entity's update hook during
\* update() is deferred: when the iteration over the ordered collection has
\* finished (before the destruction queue is processed) the collection is
\* still the one the iteration started with, and the hook of the entity
\* created is not invoked in that pass.
C29_CreateDuringUpdateDeferred ==
    [][ (lastCall'.op = "update" /\ m_isInitialized)
          => LET iterated == updateLoop(EM, 1, Len(m_entities), lastArgs'.acts,
                                        lastArgs'.faults, lastArgs'.isServer)
             IN /\ iterated.m_entities = m_entities
                /\ \A k \in 1..Len(updLog') :
                      \E j \in 1..Len(m_entities) :
                         m_entities[j].id = updLog'[k].id ]_vars

-----------------------------------------------------------------------------
(* Properties of the server's connection registry, checked under           *)
(* SpecServer.  A step's datagram is lastPkt' and the state it met is the   *)
(* unprimed one.                                                           *)

IsConnectRequest(data) == Len(data) >= 1 /\ data[1] = CONNECT_REQUEST

\* A connect request long enough to carry identifier and version, one of
\* which is not the server's.
Mismatched(data) ==
    /\ IsConnectRequest(data)
    /\ Len(data) >= 7
    /\ \/ ReadBE32(data, 1) # PROTOCOL_ID
       \/ ReadBE16(data, 5) # PROTOCOL_VERSION

\* A well-formed connect request carrying the server's identifier and version.
WellFormed(data) ==
    /\ IsConnectRequest(data)
    /\ Len(data) >= 9
    /\ ReadBE32(data, 1) = PROTOCOL_ID
    /\ ReadBE16(data, 5) = PROTOCOL_VERSION

ClientCount == Cardinality(DOMAIN m_clients)

WelcomesTo(log, address) ==
    {k \in 1..Len(log) : log[k].to = address /\ log[k].data[1] = WELCOME}

\* C5: a CONNECT_REQUEST whose protocol identifier or version differs from
\* the server's is answered by no WELCOME to its address, adds no ClientInfo
\* and spawns no player entity.
C5_MismatchedRequestIgnored ==
    [][ (lastPkt'.op = "handlePacket" /\ Mismatched(lastPkt'.data))
           => /\ WelcomesTo(sent', lastPkt'.addr) = {}
              /\ DOMAIN m_clients' = DOMAIN m_clients
              /\ m_entities' = m_entities
              /\ m_entityMap' = m_entityMap ]_vars

\* C5 witness: the server has just handled a mismatched connect request from
\* an unseen address while it had room for another client.
C5_Witness ==
    /\ lastPkt.op = "handlePacket"
    /\ Mismatched(lastPkt.data)
    /\ ~lastPkt.known
    /\ lastPkt.count < m_maxClients

\* C6: the number of ClientInfo records never exceeds maxClients, and a
\* CONNECT_REQUEST from an unseen address received while the client count
\* equals maxClients adds no ClientInfo and spawns no player entity.
C6_ClientCountBounded ==
    /\ [](ClientCount <= m_maxClients)
    /\ [][ (/\ lastPkt'.op = "handlePacket"
            /\ IsConnectRequest(lastPkt'.data)
            /\ ~lastPkt'.known
            /\ ClientCount = m_maxClients)
              => /\ m_clients' = m_clients
                 /\ m_entities' = m_entities
                 /\ m_entityMap' = m_entityMap ]_vars

\* C6 witness: a full server has just handled a well-formed connect request
\* from an unseen address.
C6_Witness ==
    /\ lastPkt.op = "handlePacket"
    /\ WellFormed(lastPkt.data)
    /\ ~lastPkt.known
    /\ lastPkt.count = m_maxClients
    /\ ClientCount = m_maxClients

\* C7: when the server is at capacity, a CONNECT_REQUEST with valid protocol
\* id and version is answered by a REJECT message with reason server-full
\* sent to the requesting address.
C7_FullServerSendsReject ==
    (/\ lastPkt.op = "handlePacket"
     /\ WellFormed(lastPkt.data)
     /\ lastPkt.count >= m_maxClients)
       => \E k \in 1..Len(sent) :
             /\ sent[k].to = lastPkt.addr
             /\ sent[k].data = <<REJECT, SERVER_FULL>>

\* C8: a valid CONNECT_REQUEST from a previously unseen address, received
\* below capacity, creates exactly one ClientInfo marked connected, spawns
\* one player entity reachable via getEntityById, and sends to that address
\* WELCOME carrying the client identity, then SET_MAP, then SPAWN_ENTITY for
\* the new player entity.
C8_ConnectHandshake ==
    [][ (/\ lastPkt'.op = "handlePacket"
         /\ WellFormed(lastPkt'.data)
         /\ ~lastPkt'.known
         /\ ClientCount < m_maxClients)
           => /\ \E c \in DOMAIN m_clients' :
                   /\ DOMAIN m_clients' = DOMAIN m_clients \cup {c}
                   /\ c \notin DOMAIN m_clients
                   /\ m_clients'[c].isConnected
                   /\ m_clients'[c].clientId = c
                   /\ m_clients'[c].address = lastPkt'.addr
                   /\ m_clients'[c].playerEntity = m_entities'[Len(m_entities')].ptr
                   /\ ReadBE32(sent'[1].data, 1) = c
              /\ Len(m_entities') = Len(m_entities) + 1
              /\ SubSeq(m_entities', 1, Len(m_entities)) = m_entities
              /\ m_entities'[Len(m_entities')].type = PLAYER
              /\ getEntityById(EM, m_entities[Len(m_entities)].id)'
                    = m_entities'[Len(m_entities')].ptr
              /\ Len(sent') = 3
              /\ \A k \in 1..3 : sent'[k].to = lastPkt'.addr
              /\ sent'[1].data[1] = WELCOME /\ Len(sent'[1].data) = 5
              /\ sent'[2].data = <<SET_MAP>> \o mapName \o <<0>>
              /\ sent'[3].data[1] = SPAWN_ENTITY
              /\ ReadBE32(sent'[3].data, 1) = m_entities'[Len(m_entities')].id
              /\ sent'[3].data[6] = PLAYER ]_vars

\* C8 witness: a second client has just completed the handshake: the request
\* came from an unseen address while one client was registered and there was
\* room, and three datagrams went out.
C8_Witness ==
    /\ lastPkt.op = "handlePacket"
    /\ WellFormed(lastPkt.data)
    /\ ~lastPkt.known
    /\ lastPkt.count = 1
    /\ ClientCount = 2
    /\ Len(sent) = 3

\* C9: every transport address maps to at most one ClientInfo, every
\* address-map entry names a ClientInfo that exists in the identity map with
\* that same address, and every ClientInfo has its address in the address
\* map.
C9_RegistryConsistent ==
    /\ \A a \in DOMAIN m_addressToClientIdMap :
          /\ m_addressToClientIdMap[a] \in DOMAIN m_clients
          /\ m_clients[m_addressToClientIdMap[a]].address = a
    /\ \A c \in DOMAIN m_clients :
          /\ m_clients[c].clientId = c
          /\ m_clients[c].address \in DOMAIN m_addressToClientIdMap
          /\ m_addressToClientIdMap[m_clients[c].address] = c
    /\ \A c, d \in DOMAIN m_clients :
          m_clients[c].address = m_clients[d].address => c = d

\* C9 witness: a client has just been removed (by its DISCONNECT or by a
\* timeout) while another client stays registered.
C9_Witness ==
    /\ \/ lastPkt.op = "handlePacket" /\ lastPkt.data = <<DISCONNECT>> /\ lastPkt.known
       \/ lastPkt.op = "checkTimeouts"
    /\ ClientCount = 1
    /\ m_nextClientId = U32(3)

\* C10: an INPUT, DISCONNECT or PONG datagram whose source address does not
\* map to a connected ClientInfo removes no client, changes no ClientInfo and
\* changes no entity.
C10_UnknownSenderIgnored ==
    [][ (/\ lastPkt'.op = "handlePacket"
         /\ Len(lastPkt'.data) >= 1
         /\ lastPkt'.data[1] \in {INPUT, DISCONNECT, PONG}
         /\ ~\E c \in DOMAIN m_clients :
                /\ m_clients[c].address = lastPkt'.addr
                /\ m_clients[c].isConnected)
           => /\ m_clients' = m_clients
              /\ m_addressToClientIdMap' = m_addressToClientIdMap
              /\ m_entities' = m_entities
              /\ m_entityMap' = m_entityMap
              /\ m_destructionQueue' = m_destructionQueue
              /\ sent' = <<>> ]_vars

\* C10 witness: a DISCONNECT has just arrived from an address with no
\* ClientInfo while a client on the same host, another port, is connected and
\* stays registered.
C10_Witness ==
    /\ lastPkt.op = "handlePacket"
    /\ lastPkt.data = <<DISCONNECT>>
    /\ ~lastPkt.known
    /\ \E c \in DOMAIN m_clients :
          /\ m_clients[c].isConnected
          /\ m_clients[c].address[1] = lastPkt.addr[1]
          /\ m_clients[c].address[2] # lastPkt.addr[2]

\* C25: a CONNECT_REQUEST of fewer than nine bytes (type, protocol id,
\* version, one character of name, NUL) makes the server send nothing, add
\* no ClientInfo and spawn no entity.
C25_ShortConnectRequestDropped ==
    [][ ( /\ lastPkt'.op = "handlePacket"
          /\ IsConnectRequest(lastPkt'.data)
          /\ Len(lastPkt'.data) < 9 )
          => /\ sent' = <<>>
             /\ DOMAIN m_clients' = DOMAIN m_clients
             /\ m_addressToClientIdMap' = m_addressToClientIdMap
             /\ m_entities' = m_entities
             /\ m_entityMap' = m_entityMap ]_vars

\* C25 witness: a server with room has just handled an eight-byte connect
\* request, with the right protocol id and version, from an unseen address.
C25_Witness ==
    /\ lastPkt.op = "handlePacket"
    /\ lastPkt.data = ConnectRequest(<<84, 85, 88, 65>>, <<0, 1>>, <<>>)
    /\ ~lastPkt.known
    /\ lastPkt.count < m_maxClients
    /\ sent = <<>>

\* C28: every datagram that the server's receiveData takes off the socket
\* is handed to handlePacket, also when datagrams arrive while receiveData
\* runs: what was taken is what was handled, plus the datagram in the buffer
\* while the loop body is about to handle it.
C28_EveryDatagramTakenIsHandled ==
    takenLog = IF recvPc = "loop" THEN Append(handledLog, recvPacket) ELSE handledLog

\* The identity of the ClientInfo registered for an address.
KnownId(address) == CHOOSE c \in DOMAIN m_clients : m_clients[c].address = address

ReceiveStampsClient ==
    [][ (/\ lastPkt'.op = "handlePacket"
         /\ lastPkt'.data # <<>>
         /\ lastPkt'.known)
           => LET c == KnownId(lastPkt'.addr)
              IN c \in DOMAIN m_clients' => m_clients'[c].lastPacketTime = now ]_vars

\* C32: every datagram from an address that has a ClientInfo sets that
\* client's last-packet timestamp to the receive time, so that
\* checkTimeouts, called at time now, removes no client heard from within the
\* last CONNECTION_TIMEOUT seconds, and neither removes nor alters a client
\* that has not timed out.
C32_HeardClientsSurviveCheck ==
    [][ /\ (/\ lastPkt'.op = "handlePacket"
            /\ lastPkt'.data # <<>>
            /\ lastPkt'.known)
              => LET c == KnownId(lastPkt'.addr)
                 IN c \in DOMAIN m_clients' => m_clients'[c].lastPacketTime = now
        /\ lastPkt'.op = "checkTimeouts"
              => \A c \in DOMAIN m_clients :
                    now - m_clients[c].lastPacketTime <= CONNECTION_TIMEOUT
                       => /\ c \in DOMAIN m_clients'
                          /\ m_clients'[c] = m_clients[c] ]_vars

\* Connected clients that checkTimeouts(t) finds silent for too long.
Stale(t) ==
    {c \in DOMAIN m_clients :
        m_clients[c].isConnected /\ t - m_clients[c].lastPacketTime > CONNECTION_TIMEOUT}

\* The clock stops at MaxTime: a client last heard from this late cannot be
\* seen to time out any more.
HeardLate(c) ==
    m_clients[c].lastPacketTime + CONNECTION_TIMEOUT + TickStep > MaxTime

\* C11: checkTimeouts(t) removes every connected client whose last-packet
\* timestamp lies more than the timeout before t, from the identity map and
\* from the address map, and leaves the others as they are; and, as long as
\* the clock advances and checkTimeouts keeps being called, every registered
\* client is eventually removed unless it is heard from again (late in the
\* clock's range): again and again only such clients are registered.
C11_TimedOutClientsRemoved ==
    /\ [][ lastPkt'.op = "checkTimeouts"
             => /\ DOMAIN m_clients' = DOMAIN m_clients \ Stale(frameTime')
                /\ \A c \in DOMAIN m_clients' : m_clients'[c] = m_clients[c]
                /\ DOMAIN m_addressToClientIdMap'
                     = {m_clients[c].address : c \in DOMAIN m_clients \ Stale(frameTime')}
                /\ \A a \in DOMAIN m_addressToClientIdMap' :
                      m_addressToClientIdMap'[a] = m_addressToClientIdMap[a] ]_vars
    /\ []<>(\A c \in DOMAIN m_clients : HeardLate(c))

\* C11 witness: checkTimeouts has just removed a client that fell silent
\* while a client heard from within the timeout stays registered, both clocks
\* sharing their origin.
C11_Witness ==
    /\ lastPkt.op = "checkTimeouts"
    /\ perfEpoch = 0
    /\ lastPkt.count = 2
    /\ ClientCount = 1
    /\ m_nextClientId = U32(3)
    /\ \A c \in DOMAIN m_clients : now - m_clients[c].lastPacketTime <= CONNECTION_TIMEOUT

-----------------------------------------------------------------------------
(* Properties of the client's connection, checked under SpecClient and     *)
(* SpecClientFair.                                                         *)

Welcome(id) == <<WELCOME>> \o WriteBE32(U32(id))

\* The last operation was receiveData handling this kind of datagram from
\* the server's address.
FromServer(pkt, type) ==
    pkt.op = "receiveData" /\ pkt.known /\ pkt.data # <<>> /\ pkt.data[1] = type

\* C12: connect() called in a state other than DISCONNECTED returns false,
\* sends nothing and leaves the connection state (and the rest of the
\* client) as it was.
C12_ConnectRejectedUnlessDisconnected ==
    [][ (lastPkt'.op = "connect" /\ m_connectionState # DISCONNECTED)
          => /\ ~lastCall'.ok
             /\ sent' = <<>>
             /\ m_connectionState' = m_connectionState
             /\ UNCHANGED <<m_clientId, m_serverAddress, m_lastServerPacketTime>> ]_vars

\* C12 witness: connect() has just been refused on a connected client.
C12_Witness ==
    /\ lastPkt.op = "connect"
    /\ lastCall = [op |-> "connect", ok |-> FALSE]
    /\ prevConn = CONNECTED
    /\ m_connectionState = CONNECTED
    /\ sent = <<>>

\* C13: the state becomes CONNECTED only when receiveData handles a WELCOME
\* of at least five bytes from the server's address in CONNECTING (and the
\* identity it carries is recorded), and becomes CONNECTING only by a
\* connect() that returns true from DISCONNECTED.
C13_ConnectedOnlyByWelcome ==
    /\ [][ (m_connectionState' = CONNECTED /\ m_connectionState # CONNECTED)
             => /\ FromServer(lastPkt', WELCOME)
                /\ Len(lastPkt'.data) >= 5
                /\ m_connectionState = CONNECTING
                /\ m_clientId' = ReadBE32(lastPkt'.data, 1) ]_vars
    /\ [][ (m_connectionState' = CONNECTING /\ m_connectionState # CONNECTING)
             => /\ lastPkt'.op = "connect"
                /\ lastCall' = [op |-> "connect", ok |-> TRUE]
                /\ m_connectionState = DISCONNECTED ]_vars

\* C13 witness: a connecting client has just handled the server's WELCOME.
C13_Witness ==
    /\ m_connectionState = CONNECTED
    /\ prevConn = CONNECTING
    /\ FromServer(lastPkt, WELCOME)
    /\ lastPkt.data = Welcome(1)
    /\ m_clientId = U32(1)

\* C14: when a client in CONNECTING has handled a REJECT from the server,
\* its state is CONNECTION_FAILED and no entity has been created.
C14_RejectLeavesConnectionFailed ==
    [][ (FromServer(lastPkt', REJECT) /\ m_connectionState = CONNECTING)
          => /\ m_connectionState' = CONNECTION_FAILED
             /\ m_entities' = m_entities ]_vars

\* The clock stops at MaxTime: a server packet this late cannot be seen to
\* time out any more.
ServerHeardLate == m_lastServerPacketTime + CONNECTION_TIMEOUT + TickStep > MaxTime

\* C15: a receiveData at which the last datagram from the server lies more
\* than the timeout back, and which receives none, moves a connecting client
\* to CONNECTION_FAILED and a connected one to DISCONNECTED; and, with
\* receiveData called in every frame while the clock advances, the client
\* does not stay in CONNECTING unless the server is heard from (late in the
\* clock's range).
C15_SilentServerTimesOut ==
    /\ [][ ( /\ lastPkt'.op = "receiveData"
             /\ ~lastPkt'.known
             /\ now' - m_lastServerPacketTime > CONNECTION_TIMEOUT )
             => /\ m_connectionState = CONNECTING
                   => m_connectionState' = CONNECTION_FAILED
                /\ m_connectionState = CONNECTED
                   => m_connectionState' = DISCONNECTED /\ m_clientId' = U32(0)
                /\ m_connectionState \notin {CONNECTING, CONNECTED}
                   => m_connectionState' = m_connectionState ]_vars
    /\ []<>(m_connectionState # CONNECTING \/ ServerHeardLate)

\* C15 witness: a connecting client whose request was never answered has
\* just been moved to CONNECTION_FAILED by a receiveData that received
\* nothing.
C15_Witness ==
    /\ lastPkt = NoPkt("receiveData")
    /\ prevConn = CONNECTING
    /\ m_connectionState = CONNECTION_FAILED
    /\ now - m_lastServerPacketTime > CONNECTION_TIMEOUT

\* C16: disconnect() leaves the state DISCONNECTED and the identity 0,
\* whether or not the DISCONNECT datagram was sent; on a disconnected client
\* it changes nothing and sends nothing.
C16_DisconnectResets ==
    [][ lastPkt'.op = "disconnect"
          => /\ m_connectionState' = DISCONNECTED
             /\ m_clientId' = U32(0)
             /\ m_connectionState = DISCONNECTED
                   => /\ sent' = <<>>
                      /\ UNCHANGED <<m_clientId, m_serverAddress, m_lastServerPacketTime,
                                     m_inputSequenceNumber, emVars>> ]_vars

\* C16 witness: a connected client whose DISCONNECT datagram could not be
\* sent has just been disconnected.
C16_Witness ==
    /\ lastPkt.op = "disconnect"
    /\ lastCall = [op |-> "disconnect", ok |-> FALSE]
    /\ prevConn = CONNECTED
    /\ m_connectionState = DISCONNECTED
    /\ m_clientId = U32(0)
    /\ sent = <<>>

\* C17 as stated: every INPUT datagram sent carries a sequence number
\* greater than that of every INPUT datagram sent before it, and sendInput
\* sends nothing unless the client is CONNECTED.
C17_SequenceStrictlyIncreasing ==
    \A i, j \in 1..Len(inputLog) :
        i < j => U32Less(inputLog[i].seq, inputLog[j].seq)

\* C17: every INPUT datagram sent carries the counter's value, which is
\* greater than that of every INPUT datagram sent before it since the
\* 32-bit counter last wrapped; and sendInput sends nothing unless the
\* client is CONNECTED.
C17_SequenceIncreasingUntilWrap ==
    /\ [][ \A i, j \in 1..Len(inputLog') :
              (i < j /\ inputLog'[i].epoch = inputLog'[j].epoch)
                 => U32Less(inputLog'[i].seq, inputLog'[j].seq) ]_vars
    /\ [][ lastPkt'.op = "sendInput"
             => IF m_connectionState = CONNECTED /\ lastCall'.ok
                THEN sent' = <<[to |-> m_serverAddress,
                                data |-> <<INPUT>> \o WriteBE32(m_inputSequenceNumber)]>>
                ELSE sent' = <<>> /\ inputLog' = inputLog ]_vars

\* C17 witness: a client that sent an INPUT datagram, was disconnected and
\* connected again has sent its next INPUT datagram.
C17_Witness ==
    /\ lastPkt.op = "sendInput"
    /\ lastCall = [op |-> "sendInput", ok |-> TRUE]
    /\ m_connectionState = CONNECTED
    /\ Len(inputLog) = 2
    /\ inputLog[1].epoch = inputLog[2].epoch
    /\ Len(sent) = 1
    /\ sent[1].data = <<INPUT>> \o WriteBE32(inputLog[2].seq)

-----------------------------------------------------------------------------
(* Properties of the client's replicas, checked under SpecReplica.         *)

\* The entities a snapshot of the server world w has entries for.
Encoded(w) == getActiveEntities(ServerManager(w))

\* The last operation was receiveData handling, without a failed
\* allocation, the snapshot of w from the server's address.
HandledSnapshot(pkt, call, w) ==
    /\ FromServer(pkt, STATE_UPDATE)
    /\ pkt.data = stateUpdate(ServerManager(w), now * 1000)
    /\ call.ok

\* The manager S holds a replica with this identity, position and rotation,
\* and getEntityById returns it.
HoldsReplica(S, id, position, rotation) ==
    /\ getEntityById(S, id) # Null
    /\ \E k \in 1..Len(S.m_entities) :
          /\ S.m_entities[k].ptr = getEntityById(S, id)
          /\ S.m_entities[k].id = id
          /\ S.m_entities[k].pos = position
          /\ S.m_entities[k].rot = rotation

\* C18: after a CONNECTED client has handled a STATE_UPDATE, getEntityById
\* of every entry's identity returns a replica with the entry's position and
\* rotation; a replica held before is the one returned (overwritten), and
\* one replica is created for each identity not held before.
C18_SnapshotOverwritesOrCreates ==
    [][ \A w \in ServerWorlds :
          (HandledSnapshot(lastPkt', lastCall', w) /\ m_connectionState = CONNECTED)
             => /\ \A k \in 1..Len(Encoded(w)) :
                      LET e == Encoded(w)[k]
                      IN /\ HoldsReplica(EM', e.id, e.pos, e.rot)
                         /\ getEntityById(EM, e.id) # Null
                               => getEntityById(EM', e.id) = getEntityById(EM, e.id)
                /\ Len(m_entities')
                     = Len(m_entities)
                       + Cardinality({k \in 1..Len(Encoded(w)) :
                                         getEntityById(EM, Encoded(w)[k].id) = Null}) ]_vars

\* C18 witness: a client that held one replica, with identity 1, has handled
\* a snapshot with entries for identities 1 and 2: replica 1 has moved and
\* replica 2 is new.
C18_Witness ==
    /\ \E w \in ServerWorlds : Len(Encoded(w)) = 2 /\ HandledSnapshot(lastPkt, lastCall, w)
    /\ prevConn = CONNECTED
    /\ lastPkt.count = 1
    /\ Len(m_entities) = 2
    /\ m_entities[1].id = U32(1) /\ m_entities[1].pos = <<0, 100>> /\ m_entities[1].rot = 100
    /\ m_entities[2].id = U32(2)

C20_DestroyCommandRemovesReplica ==
    [][ \A id \in 1..2 :
          ( /\ FromServer(lastPkt, DESTROY_ENTITY)
            /\ lastPkt.data = DestroyDatagram(id)
            /\ prevConn = CONNECTED
            /\ lastPkt'.op = "update" )
             => /\ U32(id) \notin DOMAIN m_entityMap'
                /\ \A e \in DOMAIN m_entityMap \ {U32(id)} : e \in DOMAIN m_entityMap' ]_vars

MinLength(type) ==
    CASE type = WELCOME -> 1 + 4
      [] type = REJECT -> 1
      [] type = STATE_UPDATE -> 1 + 8 + 1
      [] type = SPAWN_ENTITY -> 1 + 4 + 1 + 3 * 4
      [] type = DESTROY_ENTITY -> 1 + 4
      [] type = PING -> 1
      [] type = SET_MAP -> 1 + 1
      [] OTHER -> 0

\* A datagram of an unrecognised type, or shorter than its type requires.
Malformed(data) ==
    /\ data # <<>>
    /\ MinLength(data[1]) = 0 \/ Len(data) < MinLength(data[1])

\* C26 (client side): a datagram from the server whose type is not
\* recognised, or which is shorter than its type requires, leaves a
\* connected client's entities (both collections and the queue) and its
\* connection state as they were.
C26_MalformedDatagramDropped ==
    [][ ( /\ lastPkt'.op = "receiveData"
          /\ lastPkt'.known
          /\ Malformed(lastPkt'.data)
          /\ m_connectionState = CONNECTED )
          => /\ m_entities' = m_entities
             /\ m_entityMap' = m_entityMap
             /\ m_destructionQueue' = m_destructionQueue
             /\ m_connectionState' = m_connectionState ]_vars

-----------------------------------------------------------------------------
(* One replica per identity on a connected client, checked under            *)
(* SpecReplica: the server's datagrams arrive in any order, any number of   *)
(* times or not at all.                                                     *)

\* C35: a CONNECTED client never holds two replicas with the same identity,
\* whatever SPAWN_ENTITY and STATE_UPDATE messages naming that identity it
\* has received, in whatever order and however often.
C35_OneReplicaPerIdentity ==
    m_connectionState = CONNECTED
       => \A i, j \in 1..Len(m_entities) :
             m_entities[i].id = m_entities[j].id => i = j

\* The snapshot path alone keeps the replicas distinct: a STATE_UPDATE adds
\* no replica for an identity the client already holds.
SnapshotAddsNoDuplicate ==
    [][ (/\ lastPkt'.op = "receiveData"
         /\ lastPkt'.data # <<>>
         /\ lastPkt'.data[1] = STATE_UPDATE)
          => \A id \in DOMAIN m_entityMap :
                Cardinality({k \in 1..Len(m_entities') : m_entities'[k].id = id})
                   <= Cardinality({k \in 1..Len(m_entities) : m_entities[k].id = id})
      ]_vars

-----------------------------------------------------------------------------
(* Players and clients on the server, checked under SpecServer.             *)

\* The player entities the server's manager holds.
LivePlayers == SelectSeq(m_entities, LAMBDA e : e.type = PLAYER)

\* C36: whenever the server's manager has finished an update() (a tick
\* boundary), the player entities it holds and the registered ClientInfo
\* records correspond one to one: every record's player entity is held, and
\* there are as many players as records.
C36_PlayersMatchClients ==
    lastCall.op = "update"
       => /\ Len(LivePlayers) = Cardinality(DOMAIN m_clients)
          /\ \A c \in DOMAIN m_clients :
                \E k \in 1..Len(LivePlayers) :
                   LivePlayers[k].ptr = m_clients[c].playerEntity

\* The first half alone: a tick boundary never finds more players than
\* handshakes from distinct addresses have registered, as long as no client
\* has been removed.
C36_RepeatedRequestSpawnsNoSecondPlayer ==
    (lastCall.op = "update" /\ m_nextClientId = U32(Cardinality(DOMAIN m_clients) + 1))
       => Len(LivePlayers) <= Cardinality(DOMAIN m_clients)

\* The second half alone: with one player per handshake, a tick boundary
\* finds no player whose client has been removed.
C36_RemovedClientsPlayerIsGone ==
    (lastCall.op = "update" /\ Len(LivePlayers) = m_nextClientId[2] - 1)
       => Len(LivePlayers) <= Cardinality(DOMAIN m_clients)

-----------------------------------------------------------------------------
(* The manager's two collections and its queue, checked under SpecEM.       *)

\* The entity objects in the ordered collection and those the lookup table
\* points at.
HeldObjects == {m_entities[k].ptr : k \in 1..Len(m_entities)}

MappedObjects == {m_entityMap[id] : id \in DOMAIN m_entityMap}

\* The lookup table and the ordered collection hold the same entities, each
\* under its own identity.
SameEntitiesInBoth ==
    /\ HeldObjects = MappedObjects
    /\ \A k \in 1..Len(m_entities) :
          /\ m_entities[k].id \in DOMAIN m_entityMap
          /\ m_entityMap[m_entities[k].id] = m_entities[k].ptr

\* Every identity in the destruction queue names an entity held in both.
QueuedAreHeld ==
    \A q \in 1..Len(m_destructionQueue) :
       /\ m_destructionQueue[q] \in DOMAIN m_entityMap
       /\ \E k \in 1..Len(m_entities) : m_entities[k].id = m_destructionQueue[q]

\* The queue is empty whenever update() has returned.
QueueEmptyAfterUpdate == lastCall.op = "update" => m_destructionQueue = <<>>

\* C39: between the manager's operations the lookup table and the ordered
\* collection hold exactly the same entities, every queued identity names an
\* entity held in both, and the queue is empty when update() has returned.
C39_CollectionsAgree ==
    /\ SameEntitiesInBoth
    /\ QueuedAreHeld
    /\ QueueEmptyAfterUpdate
====
